---- MODULE Spec2Model ----
(***************************************************************************)
(* Model of the savee ingestion worker (apps/worker/app/cli.py): the run   *)
(* orchestrator run_scraper_for_url, the block upsert _upsert_block with   *)
(* its URL / asset-fingerprint pre-dedupe, and graceful pause / resume.    *)
(*                                                                         *)
(* Every orchestrator invocation is a process; process p executes run p.   *)
(* The relational store (blocks, runs, sources) and the object store are   *)
(* shared by the processes.  A step of a process is one stretch of code    *)
(* between two points where another run's committed writes can become      *)
(* visible to it.                                                          *)
(***************************************************************************)
EXTENDS Integers, Sequences, FiniteSets, TLC

(***************************************************************************)
(* Bounds of the model.                                                    *)
(***************************************************************************)
\* max_items (the length of the listing at most) of the two concurrent runs
MaxStream == 2
\* max_items of the run that executes alone
MaxSoloStream == 3
\* invocations of run_scraper_for_url per run id (first start plus retries)
MaxExec == 2
MaxWaitErrors == 2

(***************************************************************************)
(* Strings are sequences of one-character strings.                         *)
(***************************************************************************)
NULL == 0

HexDigits ==
    {"0","1","2","3","4","5","6","7","8","9",
     "a","b","c","d","e","f","A","B","C","D","E","F"}

\* str.lower() on one character (the upper-case letters the URLs use)
LowerChar(c) ==
    CASE c = "A" -> "a" [] c = "B" -> "b" [] c = "C" -> "c"
      [] c = "D" -> "d" [] c = "E" -> "e" [] c = "F" -> "f"
      [] OTHER -> c

Lower(s) == [i \in 1..Len(s) |-> LowerChar(s[i])]

StartsWith(s, p) ==
    /\ Len(p) <= Len(s)
    /\ \A i \in 1..Len(p) : s[i] = p[i]

Positions(s, c) == {i \in 1..Len(s) : s[i] = c}

SetMax(S) == CHOOSE x \in S : \A y \in S : y <= x
SetMin(S) == CHOOSE x \in S : \A y \in S : x <= y

\* u.split('?')[0]
BeforeQuery(u) ==
    IF Positions(u, "?") = {} THEN u
    ELSE SubSeq(u, 1, SetMin(Positions(u, "?")) - 1)

\* base.rsplit('/', 1)[-1]
LastSegment(s) ==
    IF Positions(s, "/") = {} THEN s
    ELSE SubSeq(s, SetMax(Positions(s, "/")) + 1, Len(s))

\* the size/type prefixes, in the order the loop tries them
SizePrefixes ==
    << <<"o","r","i","g","i","n","a","l","_">>,
       <<"t","h","u","m","b","_">>,
       <<"s","m","a","l","l","_">>,
       <<"m","e","d","i","u","m","_">>,
       <<"l","a","r","g","e","_">> >>

StripOne(s, p) == IF StartsWith(s, p) THEN SubSeq(s, Len(p) + 1, Len(s)) ELSE s

RECURSIVE StripPrefixes(_, _)
StripPrefixes(s, k) ==
    IF k > Len(SizePrefixes) THEN s
    ELSE StripPrefixes(StripOne(s, SizePrefixes[k]), k + 1)

\* filename.rsplit('.', 1)[0] when the name holds a dot
StripExt(s) ==
    IF Positions(s, ".") = {} THEN s
    ELSE SubSeq(s, 1, SetMax(Positions(s, ".")) - 1)

\* shortest run of hex digits the regular expression accepts
HexMin == 10

\* length of the run of hex digits of s that starts at i
RECURSIVE HexRun(_, _)
HexRun(s, i) ==
    IF i > Len(s) \/ s[i] \notin HexDigits THEN 0 ELSE 1 + HexRun(s, i + 1)

\* re.search(r"[0-9a-fA-F]{10,}", filename): leftmost match, greedy; <<>> if none
HexCore(s) ==
    LET starts == {i \in 1..Len(s) : HexRun(s, i) >= HexMin}
    IN  IF starts = {} THEN << >>
        ELSE LET i == SetMin(starts) IN SubSeq(s, i, i + HexRun(s, i) - 1)

\* _asset_fp: the fingerprint of a URL; <<>> stands for None and for ''
_asset_fp(u) ==
    IF u = << >> THEN << >>
    ELSE LET filename == StripExt(StripPrefixes(LastSegment(BeforeQuery(u)), 1))
             m == HexCore(filename)
         IN  Lower(IF m # << >> THEN m ELSE filename)

\* column ILIKE '%fp%': case-insensitive containment; "_" in the pattern
\* matches any one character
ILikeContains(text, fp) ==
    \E i \in 1..(Len(text) - Len(fp) + 1) :
        \A j \in 1..Len(fp) :
            \/ fp[j] = "_"
            \/ LowerChar(text[i + j - 1]) = LowerChar(fp[j])


(***************************************************************************)
(* The media URLs of the model, literal CDN-style strings.  A URL is named *)
(* in the state by its index in URLS; NULL is the absent URL.              *)
(***************************************************************************)
URLS ==
    << \* 1: c/0123456789ab.jpg
       <<"c","/","0","1","2","3","4","5","6","7","8","9","a","b",".","j","p","g">>,
       \* 2: c/thumb_0123456789AB.png?w=2   (asset of URL 1, other size and casing)
       <<"c","/","t","h","u","m","b","_","0","1","2","3","4","5","6","7","8","9",
         "A","B",".","p","n","g","?","w","=","2">>,
       \* 3: c/fedcba9876543.jpg
       <<"c","/","f","e","d","c","b","a","9","8","7","6","5","4","3",".","j","p","g">>,
       \* 4: c/a1b2c3d4e5f6.jpg
       <<"c","/","a","1","b","2","c","3","d","4","e","5","f","6",".","j","p","g">>,
       \* 5: v/0123456789ab.mp4
       <<"v","/","0","1","2","3","4","5","6","7","8","9","a","b",".","m","p","4">>,
       \* 6: v/0123456789ab   (no extension)
       <<"v","/","0","1","2","3","4","5","6","7","8","9","a","b">> >>

UrlIds == 1..Len(URLS)

\* the fingerprint of every URL of the model, computed once
FP == [u \in UrlIds |-> _asset_fp(URLS[u])]

FpOf(u) == IF u = NULL THEN << >> ELSE FP[u]

(***************************************************************************)
(* ScrapedItem: the fields of an item the orchestrator and _upsert_block   *)
(* read.  ITEMS is what the extractor can yield.                           *)
(***************************************************************************)
ScrapedItem(eid, img, og, thumb, vid) ==
    [external_id |-> eid, image_url |-> img, og_image_url |-> og,
     thumbnail_url |-> thumb, video_url |-> vid]

ItemA == ScrapedItem(1, 1, 1, NULL, NULL)
ItemB == ScrapedItem(2, 3, 3, NULL, NULL)
\* another listing's view of the asset of ItemA: new external_id, the image
\* served as a size variant, no og:image
ItemC == ScrapedItem(3, 2, NULL, NULL, NULL)
\* shares its image URL with ItemA and its og-image URL with ItemB
ItemD == ScrapedItem(4, 1, 3, NULL, NULL)

\* an item that shares nothing with the others
ItemE == ScrapedItem(5, 4, 4, NULL, NULL)

\* external_id 1 listed without any media URL, and an item that has none
ItemA0 == ScrapedItem(1, NULL, NULL, NULL, NULL)
ItemN == ScrapedItem(6, NULL, NULL, NULL, NULL)

ITEMS == {ItemA, ItemB, ItemC, ItemD}

\* item.media_url = video_src or primary_image
media_url(it) == IF it.video_url # NULL THEN it.video_url ELSE it.image_url

Procs == {1, 2}
Sources == {1, 2}

SourceStatus == {"active", "paused", "completed", "error"}

Counters0 == [found |-> 0, uploaded |-> 0, errors |-> 0, skipped |-> 0]

\* the local variables of the item loop of run_scraper_for_url
Loop0 ==
    [counters |-> Counters0, processed_count |-> 0, skipped_count |-> 0,
     consecutive_old_items |-> 0, seen_in_session |-> {}]

VARIABLES
    blocks,      \* the blocks table: a set of Block rows (committed)
    runs,        \* the runs table: run id -> Run row ("absent": not created yet)
    sources,     \* the sources table: source id -> status
    objects,     \* keys put to the object store
    env,         \* ONLY_OLD_EXIT_STREAK and PROBE_MIN_ITEMS of the environment
    max_items,   \* the max_items argument of the invocations of run p
    stream,      \* what the extractor of run p has yielded, in order
    exhausted,   \* the extractor of run p has no item after those of stream
    pc,          \* where invocation p of run_scraper_for_url stands
    execs,       \* invocations of run_scraper_for_url made for run p so far
    loop,        \* the loop's local variables (counters, streak, ...)
    r2_key,      \* local r2_key of the item being processed
    block_id,    \* local block_id returned by the last _upsert_block call
    upserted,    \* how that call ended: "none", "dedup", "inserted", "updated"
    resumed,     \* the worker log of the invocation holds a RESUME entry
    catalog,     \* the items the extractor can yield
    cms_up,      \* the log endpoint of the scheduling service answers
    log_lost,    \* a log post of invocation p (or of the dispatcher) failed
    disp,        \* the locals of main() of scripts/run_pending_once.py
    rnr,         \* the locals of main() of runner.py
    calls,       \* the calls of upload_image / upload_video made so far
    user_blocks, \* the user_blocks table: a set of <<user_id, block_id>> rows
    wait_errors  \* "Error waiting for resume" entries in the log of invocation p

vars == <<blocks, runs, sources, objects, env, max_items, stream, exhausted, pc, execs, loop,
          r2_key, block_id, upserted, resumed, catalog, cms_up, log_lost, disp, rnr,
          calls, user_blocks, wait_errors>>

dispatchVars == <<disp, rnr>>

\* the state of the orchestrator invocations and of the stores
orchVars ==
    <<blocks, runs, sources, objects, env, max_items, stream, exhausted, pc, execs, loop,
      r2_key, block_id, upserted, resumed, catalog, user_blocks, wait_errors>>

\* a dispatcher that is not part of the scenario
DispOff == [pc |-> "off"]

(***************************************************************************)
(* The persistence store as the code queries it.                           *)
(***************************************************************************)
\* _item_already_processed: a block of this run with this external_id
_item_already_processed(B, run_id, external_id) ==
    \E b \in B : b.run_id = run_id /\ b.external_id = external_id

\* _item_exists_globally: a block of any run with this external_id
_item_exists_globally(B, external_id) ==
    \E b \in B : b.external_id = external_id

\* rows of select(Block.id).where(or_(*dedupe_conditions))
ExactRows(B, it) ==
    {b \in B :
        \/ b.external_id = it.external_id
        \/ it.og_image_url # NULL /\ b.og_image_url = it.og_image_url
        \/ it.image_url # NULL /\ b.image_url = it.image_url
        \/ it.thumbnail_url # NULL /\ b.thumbnail_url = it.thumbnail_url
        \/ it.video_url # NULL /\ b.video_url = it.video_url}

\* rows one URL column of which ILIKE '%fp%' (a NULL column matches nothing)
FuzzyRows(B, fp) ==
    {b \in B :
        \E u \in {b.og_image_url, b.image_url, b.thumbnail_url, b.video_url} :
            u # NULL /\ ILikeContains(URLS[u], fp)}

\* fps: the non-empty fingerprints of the item's URLs, in the order of the list
ItemFps(it) ==
    SelectSeq(<<FpOf(it.og_image_url), FpOf(it.image_url),
                FpOf(it.thumbnail_url), FpOf(it.video_url)>>,
              LAMBDA f : f # << >>)

\* scalar_one_or_none(): the id of the one row, None (0) for no row, and
\* MultipleResultsFound (-1) for two rows or more
scalar_one_or_none(rows) ==
    IF rows = {} THEN 0
    ELSE IF Cardinality(rows) = 1 THEN (CHOOSE b \in rows : TRUE).id
    ELSE -1

\* the loop over fps: the first fingerprint with a row decides; 0: none matched
RECURSIVE FuzzyLoop(_, _, _)
FuzzyLoop(B, fps, k) ==
    IF k > Len(fps) THEN 0
    ELSE LET fuzzy_id == scalar_one_or_none(FuzzyRows(B, fps[k]))
         IN  IF fuzzy_id # 0 THEN fuzzy_id ELSE FuzzyLoop(B, fps, k + 1)

\* the pre-dedupe of _upsert_block: the id of the existing block it returns,
\* or 0 when it falls through to the insert (no match, or the query raised
\* and the except clause logged "Pre-dedupe check failed")
PreDedupe(B, it) ==
    LET existing_block_id == scalar_one_or_none(ExactRows(B, it))
    IN  IF existing_block_id > 0 THEN existing_block_id
        ELSE IF existing_block_id < 0 THEN 0
        ELSE LET fuzzy_id == FuzzyLoop(B, ItemFps(it), 1)
             IN  IF fuzzy_id > 0 THEN fuzzy_id ELSE 0

\* r2_key = None
NoKey == << >>

\* status=BlockStatusEnum.uploaded if r2_key else BlockStatusEnum.scraped
BlockStatus(key) == IF key # NoKey THEN "uploaded" ELSE "scraped"

\* the row insert(Block).values(...) builds
NewBlock(B, source_id, run_id, it, key) ==
    [id |-> Cardinality(B) + 1, external_id |-> it.external_id,
     source_id |-> source_id, run_id |-> run_id,
     image_url |-> it.image_url, video_url |-> it.video_url,
     thumbnail_url |-> it.thumbnail_url, og_image_url |-> it.og_image_url,
     status |-> BlockStatus(key), r2_key |-> key]

\* a conflicting insert that also takes over the attribution
ConflictUpdate_TakesOwnership(b, source_id, run_id, it, key) ==
    [b EXCEPT !.status = BlockStatus(key), !.r2_key = key,
              !.og_image_url = it.og_image_url,
              !.run_id = run_id, !.source_id = source_id]

\* a conflicting insert that overwrites the key and leaves the status
ConflictUpdate_KeepsStatus(b, source_id, run_id, it, key) ==
    [b EXCEPT !.r2_key = key, !.og_image_url = it.og_image_url]

\* set_ of on_conflict_do_update: what a conflicting insert overwrites
ConflictUpdate(b, source_id, run_id, it, key) ==
    [b EXCEPT !.status = BlockStatus(key), !.r2_key = key,
              !.og_image_url = it.og_image_url]

\* the same insert without the unique index on external_id
InsertOnConflict_NoUniqueIndex(B, source_id, run_id, it, key) ==
    B \cup {NewBlock(B, source_id, run_id, it, key)}

\* INSERT ... ON CONFLICT (external_id) DO UPDATE, committed
InsertOnConflict(B, source_id, run_id, it, key) ==
    IF \E b \in B : b.external_id = it.external_id
    THEN {IF b.external_id = it.external_id
          THEN ConflictUpdate(b, source_id, run_id, it, key) ELSE b : b \in B}
    ELSE B \cup {NewBlock(B, source_id, run_id, it, key)}

\* select(Block.id).where(Block.external_id == item.external_id).scalar_one()
BlockIdOf(B, external_id) ==
    (CHOOSE b \in B : b.external_id = external_id).id

(***************************************************************************)
(* The runs table.                                                         *)
(***************************************************************************)
\* error_msg=None, and the empty message: both are falsy in "if error_msg:"
NoMsg == ""

\* update_run_status: status and counters are always written, error_message
\* only when one is given
update_run_status(R, run_id, status, counters, error_msg) ==
    [R EXCEPT ![run_id].status = status,
              ![run_id].counters = counters,
              ![run_id].error_message = IF error_msg # NoMsg THEN error_msg ELSE @]

\* values(status=RunStatusEnum.paused) of _handle_graceful_pause
SetRunStatus(R, run_id, status) == [R EXCEPT ![run_id].status = status]

(***************************************************************************)
(* The item loop of run_scraper_for_url, as functions of its local         *)
(* variables L, the blocks table B and the item pulled.                    *)
(***************************************************************************)
\* STOP_ON_FIRST_OLD defaults to true, MIN_NEW_BEFORE_BREAK to 1
min_new_before_break == 1

\* a first-old rule that is armed whatever the kind of the run
stop_on_first_old_Always(kind) == TRUE

stop_on_first_old(kind) == kind = "scheduled"

\* skipped_count += 1; counters['skipped'], counters['found'] follow
CountSkip(L) ==
    [L EXCEPT !.skipped_count = @ + 1,
              !.counters.skipped = L.skipped_count + 1,
              !.counters.found = L.processed_count]

\* the streak test alone
EarlyExit_StreakOnly(L, e, kind) ==
    /\ L.consecutive_old_items >= e.only_old_exit_streak
    /\ L.processed_count >= e.probe_min_items

\* the two early-exit tests made after a globally known item
EarlyExit(L, e, kind) ==
    \/ /\ stop_on_first_old(kind)
       /\ L.counters.uploaded >= min_new_before_break
       /\ L.processed_count >= e.probe_min_items
    \/ /\ L.consecutive_old_items >= e.only_old_exit_streak
       /\ L.processed_count >= e.probe_min_items

\* from "async for item" to the try block: the branch taken and the locals
\*   "seen"    the external_id was already pulled in this session: continue
\*   "resumed" already processed by this run: counted as skipped, continue
\*   "known"   exists globally: counted as skipped, streak grows, continue
\*   "exit"    as "known", and an early-exit test breaks the loop
\*   "new"     the item goes on to upload and upsert; the streak is reset
PullItem(L, B, run_id, it, e, kind) ==
    LET L1 == [L EXCEPT !.processed_count = @ + 1]
        L2 == [L1 EXCEPT !.seen_in_session = @ \cup {it.external_id}]
        L3 == [CountSkip(L2) EXCEPT !.consecutive_old_items = @ + 1]
    IN  IF it.external_id \in L.seen_in_session
        THEN [branch |-> "seen", loop |-> L1]
        ELSE IF _item_already_processed(B, run_id, it.external_id)
        THEN [branch |-> "resumed", loop |-> CountSkip(L2)]
        ELSE IF _item_exists_globally(B, it.external_id)
        THEN [branch |-> IF EarlyExit(L3, e, kind) THEN "exit" ELSE "known",
              loop |-> L3]
        ELSE [branch |-> "new", loop |-> [L2 EXCEPT !.consecutive_old_items = 0]]

\* after the upsert: uploaded or skipped by whose run the block is, found
CountItem(L, B, run_id, bid) ==
    LET is_current_run == \E b \in B : b.id = bid /\ b.run_id = run_id
    IN  IF is_current_run
        THEN [L EXCEPT !.counters.uploaded = @ + 1,
                       !.counters.found = L.processed_count]
        ELSE [L EXCEPT !.skipped_count = @ + 1,
                       !.counters.skipped = L.skipped_count + 1,
                       !.counters.found = L.processed_count]

\* completion with the counters the loop has kept
Reconciled_LoopCounters(L, B, run_id) == L.counters

\* completion that counts every handled item as uploaded
Reconciled_CountsHandled(L, B, run_id) ==
    [L.counters EXCEPT !.uploaded = L.processed_count,
                       !.found = L.processed_count,
                       !.skipped = 0]

\* the reconciliation before completion
Reconciled(L, B, run_id) ==
    LET db_uploaded == Cardinality({b \in B : b.run_id = run_id})
        rest == L.processed_count - db_uploaded
    IN  [L.counters EXCEPT !.uploaded = db_uploaded,
                           !.found = L.processed_count,
                           !.skipped = IF rest > 0 THEN rest ELSE 0]

\* _generate_r2_key and the content-addressed name: the key of the media of
\* an item of a run
R2Key(source_id, it) == <<source_id, it.external_id, media_url(it)>>

(***************************************************************************)
(* Bounds on the environment's tuning values.                              *)
(***************************************************************************)
MaxStreak == 2
MaxProbe == 2

Envs == [only_old_exit_streak : 1..MaxStreak, probe_min_items : 1..MaxProbe]

RunKinds == {"manual", "scheduled"}

\* a run the scheduling UI has created and not yet started
PendingRun(source_id, kind) ==
    [status |-> "pending", counters |-> Counters0, error_message |-> NoMsg,
     source_id |-> source_id, kind |-> kind]

\* a run id no row exists for: run_scraper_for_url creates the row (manual)
AbsentRun(source_id) ==
    [status |-> "absent", counters |-> Counters0, error_message |-> NoMsg,
     source_id |-> source_id, kind |-> "manual"]

Live == {"setup", "pull", "upload", "upsert", "insert", "post", "waiting",
         "reconcile"}

\* the item the loop body is working on
Item(p) == stream[p][loop[p].processed_count]

source_id(p) == runs[p].source_id

InitCommon ==
    /\ blocks = {}
    /\ objects = {}
    /\ sources = [s \in Sources |-> "active"]
    /\ stream = [p \in Procs |-> << >>]
    /\ exhausted = [p \in Procs |-> FALSE]
    /\ pc = [p \in Procs |-> "idle"]
    /\ execs = [p \in Procs |-> 0]
    /\ loop = [p \in Procs |-> Loop0]
    /\ r2_key = [p \in Procs |-> NoKey]
    /\ block_id = [p \in Procs |-> 0]
    /\ upserted = [p \in Procs |-> "none"]
    /\ resumed = [p \in Procs |-> FALSE]
    /\ log_lost = [p \in Procs |-> FALSE]
    /\ user_blocks = {}
    /\ wait_errors = [p \in Procs |-> 0]

(***************************************************************************)
(* run_scraper_for_url, step by step.                                      *)
(***************************************************************************)
\* lines 800-822: resolve (or create) the run and write it as running with
\* clean counters
Start(p) ==
    /\ pc[p] \in {"idle", "done", "failed", "dead"}
    /\ execs[p] < MaxExec
    /\ execs' = [execs EXCEPT ![p] = @ + 1]
    /\ runs' = update_run_status(runs, p, "running", Counters0, NoMsg)
    /\ loop' = [loop EXCEPT ![p] = Loop0]
    /\ r2_key' = [r2_key EXCEPT ![p] = NoKey]
    /\ block_id' = [block_id EXCEPT ![p] = 0]
    /\ upserted' = [upserted EXCEPT ![p] = "none"]
    /\ resumed' = [resumed EXCEPT ![p] = FALSE]
    /\ wait_errors' = [wait_errors EXCEPT ![p] = 0]
    /\ pc' = [pc EXCEPT ![p] = "setup"]
    /\ UNCHANGED <<blocks, sources, objects, env, max_items, stream, exhausted,
                   catalog, cms_up, log_lost, dispatchVars, calls, user_blocks>>

\* the source or the run cannot be resolved or created: the exception leaves
\* run_scraper_for_url before run_id is bound, nothing is written
StartRaises(p) ==
    /\ pc[p] \in {"idle", "done", "failed", "dead"}
    /\ execs[p] < MaxExec
    /\ execs' = [execs EXCEPT ![p] = @ + 1]
    /\ pc' = [pc EXCEPT ![p] = "failed"]
    /\ UNCHANGED <<blocks, runs, sources, objects, env, max_items, stream, exhausted, loop,
                   r2_key, block_id, upserted, resumed,
                   catalog, cms_up, log_lost, dispatchVars, calls, user_blocks, wait_errors>>

\* lines 1154-1159: the outer except clause; the write needs a usable session
RunFatal(p, session_ok) ==
    /\ runs' = IF session_ok
               THEN update_run_status(runs, p, "error", loop[p].counters, "msg")
               ELSE runs
    /\ pc' = [pc EXCEPT ![p] = "failed"]

\* a log sender that lets the failure of the request out
_send_simple_log_to_cms_Raises(up) == IF up THEN "sent" ELSE "raised"

\* _send_simple_log_to_cms: the whole body is inside try / except Exception:
\* pass, so the log is sent or its failure is swallowed
_send_simple_log_to_cms(up) == IF up THEN "sent" ELSE "swallowed"

\* the invocation has lost a log
LogOutcome(p, out) == log_lost' = [log_lost EXCEPT ![p] = @ \/ out # "sent"]

\* lines 824-892: the STARTING log, the second write of running, the
\* iterator, the user profile, the storage client
Setup(p) ==
    /\ pc[p] = "setup"
    /\ LET out == _send_simple_log_to_cms(cms_up)
       IN  /\ IF out = "raised"
              THEN RunFatal(p, TRUE)
              ELSE /\ runs' = update_run_status(runs, p, "running",
                                                loop[p].counters, NoMsg)
                   /\ pc' = [pc EXCEPT ![p] = "pull"]
           /\ LogOutcome(p, out)
    /\ UNCHANGED <<blocks, sources, objects, env, max_items, stream, exhausted, execs, loop,
                   r2_key, block_id, upserted, resumed,
                   catalog, cms_up, dispatchVars, calls, user_blocks, wait_errors>>

\* setup raises once run_id is bound (no username in the URL, the profile or
\* the storage client fails)
SetupRaises(p) ==
    /\ pc[p] = "setup"
    /\ RunFatal(p, TRUE)
    /\ UNCHANGED <<blocks, sources, objects, env, max_items, stream, exhausted, execs, loop,
                   r2_key, block_id, upserted, resumed,
                   catalog, cms_up, log_lost, dispatchVars, calls, user_blocks, wait_errors>>

\* lines 895-958 for the item `it`
PullBody(p, it) ==
    LET r == PullItem(loop[p], blocks, p, it, env, runs[p].kind)
    IN  /\ loop' = [loop EXCEPT ![p] = r.loop]
        /\ runs' = IF r.branch \in {"resumed", "known", "exit"}
                   THEN update_run_status(runs, p, "running", r.loop.counters, NoMsg)
                   ELSE runs
        /\ pc' = [pc EXCEPT ![p] =
                     CASE r.branch = "new" -> "upload"
                       [] r.branch = "exit" -> "reconcile"
                       [] OTHER -> "pull"]

\* the iterator yields the next item of the listing
Pull(p) ==
    /\ pc[p] = "pull"
    /\ \/ /\ loop[p].processed_count < Len(stream[p])
          /\ PullBody(p, stream[p][loop[p].processed_count + 1])
          /\ UNCHANGED stream
       \/ /\ loop[p].processed_count = Len(stream[p])
          /\ ~exhausted[p]
          /\ Len(stream[p]) < max_items[p]
          /\ \E it \in catalog :
                /\ stream' = [stream EXCEPT ![p] = Append(@, it)]
                /\ PullBody(p, it)
    /\ UNCHANGED <<blocks, sources, objects, env, max_items, exhausted, execs, r2_key,
                   block_id, upserted, resumed,
                   catalog, cms_up, log_lost, dispatchVars, calls, user_blocks, wait_errors>>

\* the iterator is exhausted: the loop ends
PullEnd(p) ==
    /\ pc[p] = "pull"
    /\ loop[p].processed_count = Len(stream[p])
    /\ exhausted' = [exhausted EXCEPT ![p] = TRUE]
    /\ pc' = [pc EXCEPT ![p] = "reconcile"]
    /\ UNCHANGED <<blocks, runs, sources, objects, env, max_items, stream, execs, loop,
                   r2_key, block_id, upserted, resumed,
                   catalog, cms_up, log_lost, dispatchVars, calls, user_blocks, wait_errors>>

\* lines 1112-1123: the except clause of the loop body counts the error and
\* persists the counters on the same session, then the loop goes on.  A
\* statement the database rejected leaves the session's transaction aborted
\* (see _wait_for_resume, lines 113-118, which rolls back for that reason);
\* without a rollback the write raises again and leaves the loop
ItemErrorHandler(p, session_ok) ==
    LET L == [loop[p] EXCEPT !.counters.errors = @ + 1]
    IN  /\ loop' = [loop EXCEPT ![p] = L]
        /\ IF session_ok
           THEN /\ runs' = update_run_status(runs, p, "running", L.counters, NoMsg)
                /\ pc' = [pc EXCEPT ![p] = "pull"]
           ELSE RunFatal(p, FALSE)
        /\ r2_key' = [r2_key EXCEPT ![p] = NoKey]

\* an upload that hands out the key of an object it has not put
Upload_NoPut(p) ==
    /\ pc[p] = "upload"
    /\ r2_key' = [r2_key EXCEPT ![p] = <<source_id(p), Item(p).external_id, media_url(Item(p))>>]
    /\ pc' = [pc EXCEPT ![p] = "upsert"]
    /\ UNCHANGED <<blocks, runs, sources, objects, env, max_items, stream, exhausted, execs,
                   loop, block_id, upserted, resumed,
                   catalog, cms_up, log_lost, dispatchVars, calls, user_blocks, wait_errors>>

\* lines 960-1045: the FETCH/SCRAPE/UPLOAD logs (inside the try block of the
\* item) and storage.upload_image / upload_video, which returns the key
Upload(p) ==
    /\ pc[p] = "upload"
    /\ LET out == _send_simple_log_to_cms(cms_up)
       IN  /\ IF out = "raised"
              THEN /\ ItemErrorHandler(p, TRUE)
                   /\ UNCHANGED objects
              ELSE /\ IF media_url(Item(p)) # NULL
                      THEN /\ objects' = objects \cup {R2Key(source_id(p), Item(p))}
                           /\ r2_key' = [r2_key EXCEPT ![p] =
                                             R2Key(source_id(p), Item(p))]
                      ELSE UNCHANGED <<objects, r2_key>>
                   /\ pc' = [pc EXCEPT ![p] = "upsert"]
                   /\ UNCHANGED <<runs, loop>>
           /\ LogOutcome(p, out)
    /\ UNCHANGED <<blocks, sources, env, max_items, stream, exhausted, execs,
                   block_id, upserted, resumed,
                   catalog, cms_up, dispatchVars, calls, user_blocks, wait_errors>>

\* the download or the put raises
UploadRaises(p) ==
    /\ pc[p] = "upload"
    /\ media_url(Item(p)) # NULL
    /\ ItemErrorHandler(p, TRUE)
    /\ UNCHANGED <<blocks, sources, objects, env, max_items, stream, exhausted, execs,
                   block_id, upserted, resumed,
                   catalog, cms_up, log_lost, dispatchVars, calls, user_blocks, wait_errors>>

\* _detect_source_type of the url of source s: source 1 is a user profile,
\* source 2 the home listing
SourceType(s) == IF s = 1 THEN "user" ELSE "home"

\* lines 848-858: the SaveeUser row of a user-profile source, None otherwise
savee_user_id(p) == IF SourceType(source_id(p)) = "user" THEN source_id(p) ELSE NULL

\* _create_user_block_relationship: INSERT ... ON CONFLICT DO NOTHING
_create_user_block_relationship(UB, user_id, bid) == UB \cup {<<user_id, bid>>}

\* lines 1052-1054: the relationship is written for user content only
LinkUserBlock(p, bid) ==
    user_blocks' = IF savee_user_id(p) # NULL
                   THEN _create_user_block_relationship(user_blocks, savee_user_id(p), bid)
                   ELSE user_blocks

\* _upsert_block, lines 551-612: the pre-dedupe returns an existing block
\* or falls through
UpsertPre(p) ==
    /\ pc[p] = "upsert"
    /\ LET existing == PreDedupe(blocks, Item(p))
       IN  IF existing > 0
           THEN /\ block_id' = [block_id EXCEPT ![p] = existing]
                /\ upserted' = [upserted EXCEPT ![p] = "dedup"]
                /\ LinkUserBlock(p, existing)
                /\ pc' = [pc EXCEPT ![p] = "post"]
           ELSE /\ pc' = [pc EXCEPT ![p] = "insert"]
                /\ UNCHANGED <<block_id, upserted, user_blocks>>
    /\ UNCHANGED <<blocks, runs, sources, objects, env, max_items, stream, exhausted, execs,
                   loop, r2_key, resumed,
                   catalog, cms_up, log_lost, dispatchVars, calls, wait_errors>>

\* _upsert_block, lines 647-715, the relationship of lines 1052-1054 and the
\* commit of line 1056
UpsertInsert(p) ==
    /\ pc[p] = "insert"
    /\ blocks' = InsertOnConflict(blocks, source_id(p), p, Item(p), r2_key[p])
    /\ block_id' = [block_id EXCEPT ![p] = BlockIdOf(blocks', Item(p).external_id)]
    /\ upserted' = [upserted EXCEPT ![p] =
                       IF _item_exists_globally(blocks, Item(p).external_id)
                       THEN "updated" ELSE "inserted"]
    /\ LinkUserBlock(p, BlockIdOf(blocks', Item(p).external_id))
    /\ pc' = [pc EXCEPT ![p] = "post"]
    /\ UNCHANGED <<runs, sources, objects, env, max_items, stream, exhausted, execs, loop,
                   r2_key, resumed,
                   catalog, cms_up, log_lost, dispatchVars, calls, wait_errors>>

\* _upsert_block raises and the exception reaches the item's except clause:
\* before the statement was sent (the session is still usable), or because
\* the database rejected the insert (the transaction is aborted)
UpsertRaises(p) ==
    /\ pc[p] = "insert"
    /\ \E session_ok \in BOOLEAN : ItemErrorHandler(p, session_ok)
    /\ UNCHANGED <<blocks, sources, objects, env, max_items, stream, exhausted, execs,
                   block_id, upserted, resumed,
                   catalog, cms_up, log_lost, dispatchVars, calls, user_blocks, wait_errors>>

\* a pause check that never observes the flag
_check_if_paused_Never(s) == FALSE

\* _check_if_paused
_check_if_paused(s) == sources[s] = "paused"

\* a pause that is written but not waited for
PostItem_NoWait(p) ==
    /\ pc[p] = "post"
    /\ LET L == CountItem(loop[p], blocks, p, block_id[p])
           running == update_run_status(runs, p, "running", L.counters, NoMsg)
       IN  /\ loop' = [loop EXCEPT ![p] = L]
           /\ runs' = IF sources[source_id(p)] = "paused"
                      THEN SetRunStatus(running, p, "paused")
                      ELSE running
    /\ pc' = [pc EXCEPT ![p] = "pull"]
    /\ r2_key' = [r2_key EXCEPT ![p] = NoKey]
    /\ block_id' = [block_id EXCEPT ![p] = 0]
    /\ upserted' = [upserted EXCEPT ![p] = "none"]
    /\ UNCHANGED <<blocks, sources, objects, env, max_items, stream, exhausted, execs, resumed,
                   catalog, cms_up, log_lost, dispatchVars, calls, user_blocks, wait_errors>>

\* lines 1067-1110: the WRITE/UPLOAD log, still inside the try block; then
\* count the item, persist the counters and check for a pause;
\* _handle_graceful_pause writes the run as paused
PostItem(p) ==
    /\ pc[p] = "post"
    /\ LET L == CountItem(loop[p], blocks, p, block_id[p])
           running == update_run_status(runs, p, "running", L.counters, NoMsg)
           out == _send_simple_log_to_cms(cms_up)
       IN  /\ IF out = "raised"
              THEN ItemErrorHandler(p, TRUE)
              ELSE /\ loop' = [loop EXCEPT ![p] = L]
                   /\ IF _check_if_paused(source_id(p))
                      THEN /\ runs' = SetRunStatus(running, p, "paused")
                           /\ pc' = [pc EXCEPT ![p] = "waiting"]
                      ELSE /\ runs' = running
                           /\ pc' = [pc EXCEPT ![p] = "pull"]
           /\ LogOutcome(p, out)
    /\ r2_key' = [r2_key EXCEPT ![p] = NoKey]
    /\ block_id' = [block_id EXCEPT ![p] = 0]
    /\ upserted' = [upserted EXCEPT ![p] = "none"]
    /\ UNCHANGED <<blocks, sources, objects, env, max_items, stream, exhausted, execs, resumed,
                   catalog, cms_up, dispatchVars, calls, user_blocks, wait_errors>>

\* a wait that treats a cancellation as a failure of the run
_wait_for_resume_MarksError(p) ==
    /\ pc[p] = "waiting"
    /\ \/ /\ sources[source_id(p)] = "active"
          /\ runs' = SetRunStatus(runs, p, "running")
          /\ resumed' = [resumed EXCEPT ![p] = TRUE]
          /\ pc' = [pc EXCEPT ![p] = "pull"]
       \/ /\ sources[source_id(p)] \in {"completed", "error"}
          /\ runs' = SetRunStatus(runs, p, "error")
          /\ pc' = [pc EXCEPT ![p] = "failed"]
          /\ UNCHANGED resumed
    /\ UNCHANGED <<blocks, sources, objects, env, max_items, stream, exhausted, execs, loop,
                   r2_key, block_id, upserted,
                   catalog, cms_up, log_lost, dispatchVars, calls, user_blocks, wait_errors>>

\* a wait that resumes the loop without writing the run as running
_wait_for_resume_KeepsPaused(p) ==
    /\ pc[p] = "waiting"
    /\ \/ /\ sources[source_id(p)] = "active"
          /\ resumed' = [resumed EXCEPT ![p] = TRUE]
          /\ pc' = [pc EXCEPT ![p] = "pull"]
       \/ /\ sources[source_id(p)] \in {"completed", "error"}
          /\ pc' = [pc EXCEPT ![p] = "reconcile"]
          /\ UNCHANGED resumed
    /\ UNCHANGED <<blocks, runs, sources, objects, env, max_items, stream, exhausted, execs,
                   loop, r2_key, block_id, upserted,
                   catalog, cms_up, log_lost, dispatchVars, calls, user_blocks, wait_errors>>

\* a wait that ends the loop whatever status ends the pause
_wait_for_resume_StopsOnActive(p) ==
    /\ pc[p] = "waiting"
    /\ sources[source_id(p)] \in {"active", "completed", "error"}
    /\ runs' = IF sources[source_id(p)] = "active"
               THEN SetRunStatus(runs, p, "running")
               ELSE runs
    /\ resumed' = [resumed EXCEPT ![p] = sources[source_id(p)] = "active"]
    /\ pc' = [pc EXCEPT ![p] = "reconcile"]
    /\ UNCHANGED <<blocks, sources, objects, env, max_items, stream, exhausted, execs, loop,
                   r2_key, block_id, upserted,
                   catalog, cms_up, log_lost, dispatchVars, calls, user_blocks, wait_errors>>

\* _wait_for_resume: one poll that ends the wait.  "active": the run is
\* written as running and the loop goes on; "completed" or "error": the
\* function returns False and the loop breaks.  A poll that reads "paused"
\* changes nothing and sleeps.
_wait_for_resume(p) ==
    /\ pc[p] = "waiting"
    /\ \/ /\ sources[source_id(p)] = "active"
          /\ runs' = SetRunStatus(runs, p, "running")
          /\ resumed' = [resumed EXCEPT ![p] = TRUE]
          /\ pc' = [pc EXCEPT ![p] = "pull"]
       \/ /\ sources[source_id(p)] \in {"completed", "error"}
          /\ pc' = [pc EXCEPT ![p] = "reconcile"]
          /\ UNCHANGED <<runs, resumed>>
    /\ UNCHANGED <<blocks, sources, objects, env, max_items, stream, exhausted, execs, loop,
                   r2_key, block_id, upserted,
                   catalog, cms_up, log_lost, dispatchVars, calls, user_blocks, wait_errors>>

\* a failed poll that leaves _wait_for_resume and fails the run
_wait_for_resume_PollFatal(p) ==
    /\ pc[p] = "waiting"
    /\ wait_errors[p] < MaxWaitErrors
    /\ wait_errors' = [wait_errors EXCEPT ![p] = @ + 1]
    /\ runs' = SetRunStatus(runs, p, "error")
    /\ pc' = [pc EXCEPT ![p] = "failed"]
    /\ UNCHANGED <<blocks, sources, objects, env, max_items, stream, exhausted, execs, loop,
                   r2_key, block_id, upserted, resumed,
                   catalog, cms_up, log_lost, dispatchVars, calls, user_blocks>>

\* _wait_for_resume, lines 113-120: the select of the status, or the update
\* and commit of the run after an active status, raises: the except clause
\* rolls the session back (nothing of the failed attempt is stored), logs
\* "Error waiting for resume", sleeps 5 s and the loop polls again
_wait_for_resume_PollRaises(p) ==
    /\ pc[p] = "waiting"
    /\ wait_errors[p] < MaxWaitErrors
    /\ wait_errors' = [wait_errors EXCEPT ![p] = @ + 1]
    /\ UNCHANGED <<blocks, runs, sources, objects, env, max_items, stream, exhausted, pc,
                   execs, loop, r2_key, block_id, upserted, resumed,
                   catalog, cms_up, log_lost, dispatchVars, calls, user_blocks>>

\* lines 1125-1152: reconcile the counters, write the run as completed, send
\* the COMPLETE log (an exception there reaches the outer except clause),
\* return
Complete(p) ==
    /\ pc[p] = "reconcile"
    /\ LET counters == Reconciled(loop[p], blocks, p)
           completed == update_run_status(runs, p, "completed", counters, NoMsg)
           out == _send_simple_log_to_cms(cms_up)
       IN  /\ loop' = [loop EXCEPT ![p].counters = counters]
           /\ IF out = "raised"
              THEN /\ runs' = update_run_status(completed, p, "error", counters, "msg")
                   /\ pc' = [pc EXCEPT ![p] = "failed"]
              ELSE /\ runs' = completed
                   /\ pc' = [pc EXCEPT ![p] = "done"]
           /\ LogOutcome(p, out)
    /\ UNCHANGED <<blocks, sources, objects, env, max_items, stream, exhausted, execs,
                   r2_key, block_id, upserted, resumed,
                   catalog, cms_up, dispatchVars, calls, user_blocks, wait_errors>>

\* the process of the invocation is terminated from outside
Kill(p) ==
    /\ pc[p] \in Live
    /\ pc' = [pc EXCEPT ![p] = "dead"]
    /\ r2_key' = [r2_key EXCEPT ![p] = NoKey]
    /\ block_id' = [block_id EXCEPT ![p] = 0]
    /\ upserted' = [upserted EXCEPT ![p] = "none"]
    /\ UNCHANGED <<blocks, runs, sources, objects, env, max_items, stream, exhausted, execs,
                   loop, resumed,
                   catalog, cms_up, log_lost, dispatchVars, calls, user_blocks, wait_errors>>

\* the scheduling UI sets the status of a source
FlipSource(s, st) ==
    /\ sources[s] # st
    /\ sources' = [sources EXCEPT ![s] = st]
    /\ UNCHANGED <<blocks, runs, objects, env, max_items, stream, exhausted, pc, execs, loop,
                   r2_key, block_id, upserted, resumed,
                   catalog, cms_up, log_lost, dispatchVars, calls, user_blocks, wait_errors>>

(***************************************************************************)
(* Spec: two runs execute concurrently against the shared store, each run  *)
(* once, to completion.  Run 1 was created by the scheduling UI, run 2 is  *)
(* created by its invocation, for the same source or for another one.      *)
(***************************************************************************)
\* no dispatcher and no direct storage call in the scenario; the log endpoint
\* answers
OrchestratorOnly ==
    /\ cms_up = TRUE
    /\ disp = DispOff
    /\ rnr = DispOff
    /\ calls = << >>

Init ==
    /\ InitCommon
    /\ OrchestratorOnly
    /\ catalog = ITEMS
    /\ env = [only_old_exit_streak |-> MaxStreak, probe_min_items |-> MaxProbe]
    /\ max_items = [p \in Procs |-> MaxStream]
    /\ \E s \in Sources :
          runs = [p \in Procs |->
                     IF p = 1 THEN PendingRun(1, "manual") ELSE AbsentRun(s)]

Next ==
    \E p \in Procs :
        \/ pc[p] = "idle" /\ Start(p)
        \/ Setup(p)
        \/ Pull(p)
        \/ PullEnd(p)
        \/ Upload(p)
        \/ UpsertPre(p)
        \/ UpsertInsert(p)
        \/ PostItem(p)
        \/ Complete(p)

Spec == Init /\ [][Next]_vars

(***************************************************************************)
(* SpecStatus: as Spec, over a listing in which items come with and        *)
(* without media, external_id 1 in both forms.                             *)
(***************************************************************************)
MaxStatusStream == 2

StatusItems == {ItemA, ItemA0, ItemN}

InitStatus ==
    /\ InitCommon
    /\ OrchestratorOnly
    /\ catalog = StatusItems
    /\ env = [only_old_exit_streak |-> MaxStreak, probe_min_items |-> MaxProbe]
    /\ max_items = [p \in Procs |-> MaxStatusStream]
    /\ \E s \in Sources :
          runs = [p \in Procs |->
                     IF p = 1 THEN PendingRun(1, "manual") ELSE AbsentRun(s)]

SpecStatus == InitStatus /\ [][Next]_vars

(***************************************************************************)
(* SpecSolo: run 1 is executed once, alone, in a store that is empty or    *)
(* holds what run 2 has left.  Uploads and inserts can fail and the        *)
(* scheduling UI flips the status of the source at any time.               *)
(***************************************************************************)
\* the block of ItemB as run 2 created it
PriorBlocks == {NewBlock({}, 2, 2, ItemB, R2Key(2, ItemB))}

\* the state Spec reaches when run 2 (source 2) has pulled ItemB alone and
\* completed
AfterRun2 ==
    LET c2 == [Counters0 EXCEPT !.found = 1, !.uploaded = 1]
    IN  /\ blocks = PriorBlocks
        /\ objects = {R2Key(2, ItemB)}
        /\ stream = [p \in Procs |-> IF p = 1 THEN << >> ELSE <<ItemB>>]
        /\ exhausted = [p \in Procs |-> p = 2]
        /\ pc = [p \in Procs |-> IF p = 1 THEN "idle" ELSE "done"]
        /\ execs = [p \in Procs |-> IF p = 1 THEN 0 ELSE 1]
        /\ loop = [p \in Procs |->
                      IF p = 1 THEN Loop0
                      ELSE [Loop0 EXCEPT !.counters = c2, !.processed_count = 1,
                                         !.seen_in_session = {ItemB.external_id}]]
        /\ sources = [s \in Sources |-> "active"]
        /\ r2_key = [p \in Procs |-> NoKey]
        /\ block_id = [p \in Procs |-> 0]
        /\ upserted = [p \in Procs |-> "none"]
        /\ resumed = [p \in Procs |-> FALSE]
        /\ log_lost = [p \in Procs |-> FALSE]
        /\ user_blocks = {}
        /\ wait_errors = [p \in Procs |-> 0]

SoloRuns ==
    {[p \in Procs |->
         IF p = 1 THEN run1
         ELSE IF pc[2] = "idle" THEN AbsentRun(2)
         ELSE [AbsentRun(2) EXCEPT !.status = "completed",
                                   !.counters = loop[2].counters]] :
     run1 \in {PendingRun(1, k) : k \in RunKinds} \cup {AbsentRun(1)}}

InitSolo ==
    /\ InitCommon \/ AfterRun2
    /\ OrchestratorOnly
    /\ catalog = ITEMS
    /\ env \in Envs
    /\ max_items = [p \in Procs |-> IF p = 1 THEN MaxSoloStream ELSE MaxStream]
    /\ runs \in SoloRuns

NextSolo ==
    \/ pc[1] = "idle" /\ Start(1)
    \/ Setup(1)
    \/ SetupRaises(1)
    \/ Pull(1)
    \/ PullEnd(1)
    \/ Upload(1)
    \/ UploadRaises(1)
    \/ UpsertPre(1)
    \/ UpsertInsert(1)
    \/ UpsertRaises(1)
    \/ PostItem(1)
    \/ _wait_for_resume(1)
    \/ Complete(1)
    \/ \E st \in SourceStatus : FlipSource(1, st)

SpecSolo == InitSolo /\ [][NextSolo]_vars

(***************************************************************************)
(* SpecRetry: as SpecSolo, and the invocation can be killed, and a run     *)
(* whose invocation has ended (returned, raised, killed) is started again  *)
(* with its run id, as the dispatcher does on a non-zero exit.             *)
(***************************************************************************)
InitRetry ==
    /\ InitCommon \/ AfterRun2
    /\ OrchestratorOnly
    /\ catalog = ITEMS
    /\ env = [only_old_exit_streak |-> MaxStreak, probe_min_items |-> MaxProbe]
    /\ max_items = [p \in Procs |-> MaxStream]
    /\ runs \in SoloRuns

NextRetry ==
    \/ Start(1)
    \/ StartRaises(1)
    \/ Setup(1)
    \/ SetupRaises(1)
    \/ Pull(1)
    \/ PullEnd(1)
    \/ Upload(1)
    \/ UploadRaises(1)
    \/ UpsertPre(1)
    \/ UpsertInsert(1)
    \/ UpsertRaises(1)
    \/ PostItem(1)
    \/ _wait_for_resume(1)
    \/ Complete(1)
    \/ Kill(1)
    \/ \E st \in SourceStatus : FlipSource(1, st)

SpecRetry == InitRetry /\ [][NextRetry]_vars

(***************************************************************************)
(* SpecPause: run 1 is executed once, alone, nothing fails, and the        *)
(* scheduling UI only pauses and resumes the source.                       *)
(***************************************************************************)
NextPause ==
    \/ pc[1] = "idle" /\ Start(1)
    \/ Setup(1)
    \/ Pull(1)
    \/ PullEnd(1)
    \/ Upload(1)
    \/ UpsertPre(1)
    \/ UpsertInsert(1)
    \/ PostItem(1)
    \/ _wait_for_resume(1)
    \/ Complete(1)
    \/ \E st \in {"active", "paused"} : FlipSource(1, st)

SpecPause == InitSolo /\ [][NextPause]_vars

(***************************************************************************)
(* SpecWait: run 1 is executed once, alone; the scheduling UI sets the     *)
(* source to any status at any time and the polls of _wait_for_resume can  *)
(* fail.                                                                   *)
(***************************************************************************)
MaxWaitStream == 2

InitWait ==
    /\ InitCommon \/ AfterRun2
    /\ OrchestratorOnly
    /\ catalog = ITEMS
    /\ env \in Envs
    /\ max_items = [p \in Procs |-> MaxWaitStream]
    /\ runs \in SoloRuns

NextWait ==
    \/ pc[1] = "idle" /\ Start(1)
    \/ Setup(1)
    \/ Pull(1)
    \/ PullEnd(1)
    \/ Upload(1)
    \/ UpsertPre(1)
    \/ UpsertInsert(1)
    \/ PostItem(1)
    \/ _wait_for_resume(1)
    \/ _wait_for_resume_PollRaises(1)
    \/ Complete(1)
    \/ \E st \in SourceStatus : FlipSource(1, st)

SpecWait == InitWait /\ [][NextWait]_vars

(***************************************************************************)
(* R2Storage.upload_image and upload_video: the key they return for the    *)
(* bytes the download of a URL gave.  SpecUpload makes up to MaxCalls      *)
(* calls, with any URL, logical key and content.                           *)
(***************************************************************************)
MaxCalls == 2

EndsWith(s, suf) ==
    /\ Len(suf) <= Len(s)
    /\ SubSeq(s, Len(s) - Len(suf) + 1, Len(s)) = suf

\* urlparse(url).path of a URL with no scheme: up to the query or fragment
UrlPath(u) ==
    LET cut == Positions(u, "?") \cup Positions(u, "#")
    IN  IF cut = {} THEN u ELSE SubSeq(u, 1, SetMin(cut) - 1)

_get_file_extension(url) ==
    LET path == Lower(UrlPath(url))
    IN  CASE EndsWith(path, <<".","j","p","g">>)
               \/ EndsWith(path, <<".","j","p","e","g">>) -> ".jpg"
          [] EndsWith(path, <<".","p","n","g">>) -> ".png"
          [] EndsWith(path, <<".","g","i","f">>) -> ".gif"
          [] EndsWith(path, <<".","w","e","b","p">>) -> ".webp"
          [] EndsWith(path, <<".","m","p","4">>) -> ".mp4"
          [] EndsWith(path, <<".","w","e","b","m">>) -> ".webm"
          [] OTHER -> ".jpg"

\* the contents a download can return, and hashlib.sha256(data).hexdigest()[:16]
Contents == {"bytes1", "bytes2"}

content_hash(data) == <<"sha256", data>>

\* the logical keys _generate_r2_key builds
BaseKeys == {"home/blocks/1", "pop/blocks/1"}

\* f"{base_key}/original_{content_hash}{ext}"
upload_image(image_url, base_key, image_data) ==
    <<base_key, "/original_", content_hash(image_data), _get_file_extension(image_url)>>

\* f"{base_key}/video_{content_hash}{ext}"
upload_video(video_url, base_key, video_data) ==
    <<base_key, "/video_", content_hash(video_data), _get_file_extension(video_url)>>

\* the orchestrator has not been started
OrchestratorIdle ==
    /\ InitCommon
    /\ catalog = ITEMS
    /\ env = [only_old_exit_streak |-> MaxStreak, probe_min_items |-> MaxProbe]
    /\ max_items = [p \in Procs |-> MaxStream]
    /\ runs = [p \in Procs |-> AbsentRun(p)]

\* a call of upload_image: the download returns data, the key is returned
UploadImage ==
    /\ Len(calls) < MaxCalls
    /\ \E u \in UrlIds, base_key \in BaseKeys, data \in Contents :
          calls' = Append(calls, [fn |-> "upload_image", url |-> u,
                                  base_key |-> base_key, data |-> data,
                                  key |-> upload_image(URLS[u], base_key, data)])
    /\ UNCHANGED <<orchVars, cms_up, log_lost, dispatchVars>>

\* a call of upload_video
UploadVideo ==
    /\ Len(calls) < MaxCalls
    /\ \E u \in UrlIds, base_key \in BaseKeys, data \in Contents :
          calls' = Append(calls, [fn |-> "upload_video", url |-> u,
                                  base_key |-> base_key, data |-> data,
                                  key |-> upload_video(URLS[u], base_key, data)])
    /\ UNCHANGED <<orchVars, cms_up, log_lost, dispatchVars>>

\* the download fails on its three attempts, or the put fails: the call
\* raises and returns no key
UploadCallRaises ==
    /\ Len(calls) < MaxCalls
    /\ \E fn \in {"upload_image", "upload_video"}, u \in UrlIds,
          base_key \in BaseKeys :
          calls' = Append(calls, [fn |-> fn, url |-> u, base_key |-> base_key,
                                  data |-> "none", key |-> NoKey])
    /\ UNCHANGED <<orchVars, cms_up, log_lost, dispatchVars>>

InitUpload ==
    /\ OrchestratorIdle
    /\ cms_up = TRUE
    /\ disp = DispOff
    /\ rnr = DispOff
    /\ calls = << >>

NextUpload == UploadImage \/ UploadVideo \/ UploadCallRaises

SpecUpload == InitUpload /\ [][NextUpload]_vars

(***************************************************************************)
(* SpecEnd: SpecWait with the failures of setup, upload and upsert, and    *)
(* with the fairness the event loop gives: the invocation takes a step     *)
(* whenever it can, and, polling every 2 s, _wait_for_resume reads a       *)
(* status that is not paused if the source is in one again and again.      *)
(***************************************************************************)
\* the steps of the invocation of run 1
RunSteps ==
    \/ pc[1] = "idle" /\ Start(1)
    \/ Setup(1)
    \/ SetupRaises(1)
    \/ Pull(1)
    \/ PullEnd(1)
    \/ Upload(1)
    \/ UploadRaises(1)
    \/ UpsertPre(1)
    \/ UpsertInsert(1)
    \/ UpsertRaises(1)
    \/ PostItem(1)
    \/ _wait_for_resume(1)
    \/ _wait_for_resume_PollRaises(1)
    \/ Complete(1)

NextEnd == RunSteps \/ \E st \in SourceStatus : FlipSource(1, st)

SpecEnd ==
    /\ InitWait
    /\ [][NextEnd]_vars
    /\ WF_vars(RunSteps)
    /\ SF_vars(_wait_for_resume(1))

(***************************************************************************)
(* upload_image and upload_video with their derived assets: the four       *)
(* thumbnails of an image and the poster of a video.  SpecDerived makes up *)
(* to MaxDerivedCalls calls; the original and each derived asset can fail. *)
(***************************************************************************)
MaxDerivedCalls == 2

\* sizes of _generate_thumbnails, in the order they are made
Sizes == <<"thumb", "small", "medium", "large">>

\* thumbnails whose failure reaches the caller
_generate_thumbnails_Raises(base_key, hash, fail_at) ==
    [put |-> {<<base_key, "/", Sizes[k], hash, ".jpg">> : k \in 1..(fail_at - 1)},
     raised |-> fail_at <= Len(Sizes)]

\* _generate_thumbnails: Image.open fails (fail_at 0), the making or the put
\* of the fail_at-th size fails, or nothing fails (fail_at 5); the sizes
\* before the failure are put and the exception is logged, not raised
_generate_thumbnails(base_key, hash, fail_at) ==
    [put |-> {<<base_key, "/", Sizes[k], hash, ".jpg">> : k \in 1..(fail_at - 1)},
     raised |-> FALSE]

\* the poster of upload_video, lines 206-224: no candidate, made and put,
\* or its download, conversion or put fails (logged, not raised)
PosterOutcomes == {"none", "ok", "failed"}

poster(base_key, hash, outcome) ==
    IF outcome = "ok" THEN {<<base_key, "/poster_", hash, ".jpg">>} ELSE {}

DerivedUrls == {1, 5}

derivedFrame ==
    <<blocks, runs, sources, env, max_items, stream, exhausted, pc, execs, loop, r2_key,
      block_id, upserted, resumed, catalog, user_blocks, wait_errors, cms_up, log_lost,
      dispatchVars>>

\* upload_image, lines 164-185, as a whole
UploadImageWhole ==
    /\ Len(calls) < MaxDerivedCalls
    /\ \E u \in DerivedUrls, base_key \in BaseKeys, original_ok \in BOOLEAN,
          fail_at \in 0..(Len(Sizes) + 1) :
          LET data == "bytes1"
              key == upload_image(URLS[u], base_key, data)
              t == _generate_thumbnails(base_key, content_hash(data), fail_at)
              returns == original_ok /\ ~t.raised
          IN  /\ objects' = IF original_ok THEN objects \cup {key} \cup t.put ELSE objects
              /\ calls' = Append(calls,
                     [fn |-> "upload_image", url |-> u, base_key |-> base_key,
                      data |-> data, original_ok |-> original_ok,
                      derived_ok |-> original_ok /\ fail_at > Len(Sizes),
                      key |-> IF returns THEN key ELSE NoKey,
                      result |-> IF returns THEN "returned" ELSE "raised"])
    /\ UNCHANGED derivedFrame

\* upload_video, lines 187-230, as a whole
UploadVideoWhole ==
    /\ Len(calls) < MaxDerivedCalls
    /\ \E u \in DerivedUrls, base_key \in BaseKeys, original_ok \in BOOLEAN,
          outcome \in PosterOutcomes :
          LET data == "bytes1"
              key == upload_video(URLS[u], base_key, data)
          IN  /\ objects' = IF original_ok
                            THEN objects \cup {key}
                                    \cup poster(base_key, content_hash(data), outcome)
                            ELSE objects
              /\ calls' = Append(calls,
                     [fn |-> "upload_video", url |-> u, base_key |-> base_key,
                      data |-> data, original_ok |-> original_ok,
                      derived_ok |-> original_ok /\ outcome # "failed",
                      key |-> IF original_ok THEN key ELSE NoKey,
                      result |-> IF original_ok THEN "returned" ELSE "raised"])
    /\ UNCHANGED derivedFrame

NextDerived == UploadImageWhole \/ UploadVideoWhole

SpecDerived == InitUpload /\ [][NextDerived]_vars

(***************************************************************************)
(* R2Storage.upload_file: the put with its retries on clock skew.  SpecPut *)
(* makes up to MaxPutCalls calls on one storage object; each put succeeds, *)
(* is refused for clock skew, is refused for another reason or raises      *)
(* something else, and each refresh of the client succeeds or fails.       *)
(***************************************************************************)
MaxPutCalls == 2

max_retries == 6
wait_cap == 32

RECURSIVE Pow2(_)
Pow2(n) == IF n = 0 THEN 1 ELSE 2 * Pow2(n - 1)

\* a retry that does not wait
wait_time_Zero(attempt) == 0

\* min(32, 2 ** attempt)
wait_time(attempt) == IF Pow2(attempt) < wait_cap THEN Pow2(attempt) ELSE wait_cap

\* the keys upload_file is called with
PutKeys == {upload_image(URLS[1], b, "bytes1") : b \in BaseKeys}

\* what put_object does: it returns, or raises a ClientError with the code
\* RequestTimeTooSkewed or another code, or raises something else
PutOutcomes == {"ok", "RequestTimeTooSkewed", "AccessDenied", "Exception"}

\* close() then connect(): both succeed, close() raises (the client is the
\* one it was), or connect() raises after close() (the client is closed)
RefreshOutcomes == {"ok", "close_raised", "connect_raised"}

\* the call of upload_file in progress, if any
CurrentPut == calls[Len(calls)]

PutRunning == Len(calls) > 0 /\ CurrentPut.result = "running"

\* self.client when the next call starts
ClientNow == IF Len(calls) = 0 THEN "open" ELSE CurrentPut.client

putFrame ==
    <<blocks, runs, sources, env, max_items, stream, exhausted, pc, execs, loop, r2_key,
      block_id, upserted, resumed, catalog, user_blocks, wait_errors, cms_up, log_lost,
      dispatchVars>>

\* upload_file is called: lines 92-105
UploadFileCall ==
    /\ ~PutRunning
    /\ Len(calls) < MaxPutCalls
    /\ \E key \in PutKeys :
          calls' = Append(calls, [fn |-> "upload_file", key |-> key, attempt |-> 0,
                                  puts |-> << >>, refreshes |-> 0, waits |-> << >>,
                                  client |-> ClientNow, result |-> "running"])
    /\ UNCHANGED <<objects, putFrame>>

\* one iteration of the loop of lines 105-137 with the outcome of the put
\* and, where a refresh is made, the outcome of the refresh
PutObject(outcome, refresh) ==
    /\ PutRunning
    /\ CurrentPut.client = "closed" => outcome = "Exception"
    /\ LET c == CurrentPut
           tried == [c EXCEPT !.puts = Append(@, outcome)]
       IN  IF outcome = "ok"
           THEN /\ objects' = objects \cup {c.key}
                /\ calls' = [calls EXCEPT ![Len(calls)] =
                                 [tried EXCEPT !.result = "returned"]]
           ELSE /\ UNCHANGED objects
                /\ calls' = [calls EXCEPT ![Len(calls)] =
                      IF outcome = "RequestTimeTooSkewed" /\ c.attempt < max_retries - 1
                      THEN [tried EXCEPT
                               !.refreshes = @ + 1,
                               !.client = IF refresh = "connect_raised"
                                          THEN "closed" ELSE c.client,
                               !.waits = Append(@, wait_time(c.attempt)),
                               !.attempt = @ + 1]
                      ELSE [tried EXCEPT !.result = "raised"]]
    /\ UNCHANGED putFrame

PutReturns == PutObject("ok", "ok")

PutSkewed == \E refresh \in RefreshOutcomes : PutObject("RequestTimeTooSkewed", refresh)

PutRaises == \E outcome \in {"AccessDenied", "Exception"} : PutObject(outcome, "ok")

InitPut ==
    /\ OrchestratorIdle
    /\ cms_up = TRUE
    /\ disp = DispOff
    /\ rnr = DispOff
    /\ calls = << >>

NextPut == UploadFileCall \/ PutReturns \/ PutSkewed \/ PutRaises

SpecPut == InitPut /\ [][NextPut]_vars

(***************************************************************************)
(* SpecSweep: run 1 is executed once, alone, nothing fails and the source  *)
(* stays active.  The store is empty or holds the blocks run 2 created for *)
(* ItemB and ItemE.  SpecResume: as SpecSweep, and the invocation can be   *)
(* killed and the run started again with its run id.                       *)
(***************************************************************************)
MaxSweepStream == 4
MaxResumeStream == 3

SweepItems == {ItemA, ItemB, ItemC, ItemE}

\* the blocks of ItemB and ItemE as run 2 created them
SweepPrior ==
    LET b1 == NewBlock({}, 2, 2, ItemB, R2Key(2, ItemB))
    IN  {b1, NewBlock({b1}, 2, 2, ItemE, R2Key(2, ItemE))}

\* the state after run 2 (source 2) has pulled ItemB and ItemE and completed
AfterSweep2 ==
    LET c2 == [Counters0 EXCEPT !.found = 2, !.uploaded = 2]
    IN  /\ blocks = SweepPrior
        /\ objects = {R2Key(2, ItemB), R2Key(2, ItemE)}
        /\ stream = [p \in Procs |-> IF p = 1 THEN << >> ELSE <<ItemB, ItemE>>]
        /\ exhausted = [p \in Procs |-> p = 2]
        /\ pc = [p \in Procs |-> IF p = 1 THEN "idle" ELSE "done"]
        /\ execs = [p \in Procs |-> IF p = 1 THEN 0 ELSE 1]
        /\ loop = [p \in Procs |->
                      IF p = 1 THEN Loop0
                      ELSE [Loop0 EXCEPT !.counters = c2, !.processed_count = 2,
                                         !.seen_in_session = {ItemB.external_id,
                                                              ItemE.external_id}]]
        /\ sources = [s \in Sources |-> "active"]
        /\ r2_key = [p \in Procs |-> NoKey]
        /\ block_id = [p \in Procs |-> 0]
        /\ upserted = [p \in Procs |-> "none"]
        /\ resumed = [p \in Procs |-> FALSE]
        /\ log_lost = [p \in Procs |-> FALSE]
        /\ user_blocks = {}
        /\ wait_errors = [p \in Procs |-> 0]

InitSweep ==
    /\ InitCommon \/ AfterSweep2
    /\ OrchestratorOnly
    /\ catalog = SweepItems
    /\ env \in Envs
    /\ max_items = [p \in Procs |-> MaxSweepStream]
    /\ runs \in SoloRuns

NextSweep ==
    \/ pc[1] = "idle" /\ Start(1)
    \/ Setup(1)
    \/ Pull(1)
    \/ PullEnd(1)
    \/ Upload(1)
    \/ UpsertPre(1)
    \/ UpsertInsert(1)
    \/ PostItem(1)
    \/ Complete(1)

SpecSweep == InitSweep /\ [][NextSweep]_vars

InitResume ==
    /\ InitCommon \/ AfterRun2 \/ AfterSweep2
    /\ OrchestratorOnly
    /\ catalog = SweepItems
    /\ env \in Envs
    /\ max_items = [p \in Procs |-> MaxResumeStream]
    /\ runs \in SoloRuns

NextResume ==
    \/ pc[1] \in {"idle", "dead"} /\ Start(1)
    \/ Setup(1)
    \/ Pull(1)
    \/ PullEnd(1)
    \/ Upload(1)
    \/ UpsertPre(1)
    \/ UpsertInsert(1)
    \/ PostItem(1)
    \/ Complete(1)
    \/ Kill(1)

SpecResume == InitResume /\ [][NextResume]_vars

(***************************************************************************)
(* The job dispatchers.  scripts/run_pending_once.py executes the run      *)
(* descriptors of one response of the scheduling service and returns;      *)
(* runner.py polls the pending endpoint for ever.  Both start the          *)
(* orchestrator as a child process (python -m app.cli) and wait for its    *)
(* exit code, which the model draws from {0, 1}.                           *)
(***************************************************************************)
MaxRuns == 2
MaxParallelEnv == 5
MaxPolls == 2

max_attempts == 3
first_delay == 2
delay_cap == 30

\* the lists of run descriptors a response can hold, each named by its run id
\* (startedDetails and the pending endpoint can name a run twice)
RunLists == UNION {[1..n -> Procs] : n \in 0..MaxRuns}

\* the exit codes of the child process
ExitCodes == {0, 1}

\* post_log and _send_simple_log_to_cms: the request is sent, or its failure
\* is swallowed by "except Exception: pass"
post_log(up) == IF up THEN "sent" ELSE "swallowed"

\* the dispatcher d after post_log(run_id, log): an exception leaving
\* post_log would end main
DispPost(d, run_id, message) ==
    LET out == post_log(cms_up)
    IN  IF out = "raised"
        THEN [d EXCEPT !.pc = "crashed"]
        ELSE [d EXCEPT !.posts = Append(@, [d |-> d.idx, run_id |-> run_id,
                                            type |-> "RETRY", message |-> message]),
                       !.lost = @ \/ out # "sent"]

\* p.wait() returns without waiting for the child
wait_NoWait(live) == live

\* code = p.wait() / subprocess.call: the child has exited
wait(live) == live - 1

\* parallel = max(1, min(parallel, 4))
ClampParallel(raw) ==
    LET low == IF raw < 4 THEN raw ELSE 4
    IN  IF low > 1 THEN low ELSE 1

\* main of run_pending_once.py at "idx = 0"
DispStart(descriptors, raw) ==
    [pc |-> "spawn", runs |-> descriptors, parallel |-> ClampParallel(raw), idx |-> 0,
     attempt |-> 0, delay |-> first_delay, procs |-> << >>, live |-> 0, rc |-> 0,
     results |-> << >>, slept |-> << >>, posts |-> << >>, lost |-> FALSE]

\* lines 72-82: the pool is not full and a descriptor is left: take it
DispSpawn ==
    /\ disp.pc = "spawn"
    /\ disp.idx < Len(disp.runs)
    /\ Len(disp.procs) < disp.parallel
    /\ disp' = [disp EXCEPT !.idx = @ + 1, !.attempt = 0, !.delay = first_delay,
                            !.pc = "attempt"]
    /\ UNCHANGED <<orchVars, cms_up, log_lost, rnr, calls>>

\* lines 83-102: the RETRY log of a further attempt, then Popen
DispPopen ==
    /\ disp.pc = "attempt"
    /\ LET d1 == IF disp.attempt > 0
                 THEN DispPost(disp, disp.runs[disp.idx], "Attempt")
                 ELSE disp
       IN  disp' = IF d1.pc = "crashed" THEN d1
                   ELSE [d1 EXCEPT !.live = @ + 1, !.pc = "child"]
    /\ UNCHANGED <<orchVars, cms_up, log_lost, rnr, calls>>

\* lines 103-112 and 119-126: the child exits with `code`; on success or on
\* the last attempt the retry loop ends and the two pool entries are added,
\* else the retry is announced
DispWait ==
    /\ disp.pc = "child"
    /\ \E code \in ExitCodes :
          LET run_id == disp.runs[disp.idx]
              d1 == [disp EXCEPT !.live = wait(@),
                                 !.results = Append(@, [d |-> disp.idx,
                                                        run_id |-> run_id,
                                                        attempt |-> disp.attempt,
                                                        code |-> code])]
              d2 == IF code = 0 THEN DispPost(d1, run_id, "Completed") ELSE d1
              d3 == DispPost([d1 EXCEPT !.attempt = @ + 1], run_id, "Retry")
          IN  disp' = IF code = 0 \/ disp.attempt >= max_attempts - 1
                      THEN IF d2.pc = "crashed" THEN d2
                           ELSE [d2 EXCEPT !.procs = @ \o <<0, code>>,
                                           !.pc = "spawn"]
                      ELSE IF d3.pc = "crashed" THEN d3
                           ELSE [d3 EXCEPT !.pc = "sleep"]
    /\ UNCHANGED <<orchVars, cms_up, log_lost, rnr, calls>>

\* lines 113-117: time.sleep(delay); delay = min(delay * 2, 30)
DispSleep ==
    /\ disp.pc = "sleep"
    /\ disp' = [disp EXCEPT !.slept = Append(@, [d |-> disp.idx,
                                                 delay |-> disp.delay]),
                            !.delay = IF @ * 2 < delay_cap THEN @ * 2 ELSE delay_cap,
                            !.pc = "attempt"]
    /\ UNCHANGED <<orchVars, cms_up, log_lost, rnr, calls>>

\* the first pool entry whose exit code is not 0, or 0
RECURSIVE FirstFailure(_)
FirstFailure(procs) ==
    IF procs = << >> THEN 0
    ELSE IF Head(procs) # 0 THEN Head(procs)
    ELSE FirstFailure(Tail(procs))

\* lines 127-147: every pool entry has finished; they are popped in order
\* and the first non-zero code is returned
DispReap ==
    /\ disp.pc = "spawn"
    /\ ~(disp.idx < Len(disp.runs) /\ Len(disp.procs) < disp.parallel)
    /\ disp.procs # << >>
    /\ disp' = IF FirstFailure(disp.procs) # 0
               THEN [disp EXCEPT !.procs = << >>, !.rc = FirstFailure(disp.procs),
                                 !.pc = "exit"]
               ELSE [disp EXCEPT !.procs = << >>]
    /\ UNCHANGED <<orchVars, cms_up, log_lost, rnr, calls>>

\* lines 38-40 and 148: no descriptor and no pool entry is left
DispReturn ==
    /\ disp.pc = "spawn"
    /\ disp.idx >= Len(disp.runs)
    /\ disp.procs = << >>
    /\ disp' = [disp EXCEPT !.rc = 0, !.pc = "exit"]
    /\ UNCHANGED <<orchVars, cms_up, log_lost, rnr, calls>>

\* main of runner.py at "while True"
RnrStart(max_parallel) ==
    [pc |-> "fetch", MAX_PARALLEL |-> max_parallel, runs |-> << >>, k |-> 0,
     poll |-> 1, live |-> 0, results |-> << >>, slept |-> << >>, posts |-> << >>]

\* runs[:MAX_PARALLEL]
Sliced(rs, n) == SubSeq(rs, 1, IF n < Len(rs) THEN n ELSE Len(rs))

\* _fetch_pending: the pending list, [] when the request fails
RnrFetch ==
    /\ rnr.pc = "fetch"
    /\ \E pending \in RunLists :
          /\ ~cms_up => pending = << >>
          /\ rnr' = [rnr EXCEPT !.runs = pending, !.k = 0,
                                !.pc = IF pending # << >> THEN "job" ELSE "sleep"]
    /\ UNCHANGED <<orchVars, cms_up, log_lost, disp, calls>>

\* _run_job: subprocess.call starts the child
RnrRunJob ==
    /\ rnr.pc = "job"
    /\ rnr.k < Len(Sliced(rnr.runs, rnr.MAX_PARALLEL))
    /\ rnr' = [rnr EXCEPT !.k = @ + 1, !.live = @ + 1, !.pc = "child"]
    /\ UNCHANGED <<orchVars, cms_up, log_lost, disp, calls>>

\* the child exits; a failure is logged and the loop goes on
RnrJobExit ==
    /\ rnr.pc = "child"
    /\ \E code \in ExitCodes :
          rnr' = [rnr EXCEPT !.live = wait(@),
                             !.results = Append(@, [d |-> <<rnr.poll, rnr.k>>,
                                                    run_id |-> rnr.runs[rnr.k],
                                                    attempt |-> 0,
                                                    code |-> code]),
                             !.pc = "job"]
    /\ UNCHANGED <<orchVars, cms_up, log_lost, disp, calls>>

\* the for loop is over
RnrLoopEnd ==
    /\ rnr.pc = "job"
    /\ rnr.k >= Len(Sliced(rnr.runs, rnr.MAX_PARALLEL))
    /\ rnr' = [rnr EXCEPT !.pc = "sleep"]
    /\ UNCHANGED <<orchVars, cms_up, log_lost, disp, calls>>

\* time.sleep(POLL_INTERVAL_SEC), then the next poll
RnrSleep ==
    /\ rnr.pc = "sleep"
    /\ rnr.poll < MaxPolls
    /\ rnr' = [rnr EXCEPT !.poll = @ + 1, !.pc = "fetch"]
    /\ UNCHANGED <<orchVars, cms_up, log_lost, disp, calls>>

\* the log endpoint of the scheduling service goes down or comes back
CmsFlip ==
    /\ cms_up' = ~cms_up
    /\ UNCHANGED <<orchVars, log_lost, dispatchVars, calls, user_blocks, wait_errors>>

(***************************************************************************)
(* SpecDispatch: one of the two dispatchers runs, over any list of         *)
(* descriptors and any concurrency setting.                                *)
(***************************************************************************)
InitDispatch ==
    /\ OrchestratorIdle
    /\ cms_up \in BOOLEAN
    /\ calls = << >>
    /\ \/ /\ \E descriptors \in RunLists, raw \in 0..MaxParallelEnv :
                disp = DispStart(descriptors, raw)
          /\ rnr = DispOff
       \/ /\ disp = DispOff
          /\ \E n \in 0..MaxRuns : rnr = RnrStart(n)

NextDispatch ==
    \/ DispSpawn
    \/ DispPopen
    \/ DispWait
    \/ DispSleep
    \/ DispReap
    \/ DispReturn
    \/ RnrFetch
    \/ RnrRunJob
    \/ RnrJobExit
    \/ RnrLoopEnd
    \/ RnrSleep
    \/ CmsFlip

SpecDispatch == InitDispatch /\ [][NextDispatch]_vars

(***************************************************************************)
(* SpecLogs: the log endpoint goes down and comes back at any time while   *)
(* run 1 is executed once, alone, with nothing else failing, or while      *)
(* run_pending_once executes a list of descriptors.                        *)
(***************************************************************************)
InitLogs ==
    /\ cms_up \in BOOLEAN
    /\ calls = << >>
    /\ rnr = DispOff
    /\ \/ /\ InitCommon \/ AfterRun2
          /\ catalog = ITEMS
          /\ env \in Envs
          /\ max_items = [p \in Procs |-> MaxStream]
          /\ runs \in SoloRuns
          /\ disp = DispOff
       \/ /\ OrchestratorIdle
          /\ \E descriptors \in RunLists : disp = DispStart(descriptors, 1)

NextLogs ==
    \/ pc[1] = "idle" /\ disp.pc = "off" /\ Start(1)
    \/ Setup(1)
    \/ Pull(1)
    \/ PullEnd(1)
    \/ Upload(1)
    \/ UpsertPre(1)
    \/ UpsertInsert(1)
    \/ PostItem(1)
    \/ Complete(1)
    \/ DispSpawn
    \/ DispPopen
    \/ DispWait
    \/ DispSleep
    \/ DispReap
    \/ DispReturn
    \/ CmsFlip

SpecLogs == InitLogs /\ [][NextLogs]_vars

(***************************************************************************)
(* The item loop of run p executed in one go, from item k of its stream,   *)
(* with the loop's locals L and the blocks table B: the locals and the     *)
(* table it ends with, and whether an early exit ended it.                 *)
(***************************************************************************)
RECURSIVE UnpausedRun(_, _, _, _)
UnpausedRun(p, L, B, k) ==
    IF k > Len(stream[p])
    THEN [loop |-> L, blocks |-> B, exited |-> FALSE]
    ELSE LET it == stream[p][k]
             r == PullItem(L, B, p, it, env, runs[p].kind)
             existing == PreDedupe(B, it)
             B1 == IF existing > 0 THEN B
                   ELSE InsertOnConflict(B, source_id(p), p, it,
                                         R2Key(source_id(p), it))
             bid == IF existing > 0 THEN existing
                    ELSE BlockIdOf(B1, it.external_id)
         IN  CASE r.branch = "exit" ->
                    [loop |-> r.loop, blocks |-> B, exited |-> TRUE]
               [] r.branch = "new" ->
                    UnpausedRun(p, CountItem(r.loop, B1, p, bid), B1, k + 1)
               [] OTHER -> UnpausedRun(p, r.loop, B, k + 1)

(***************************************************************************)
(* The claims.                                                             *)
(***************************************************************************)
\* C1: in every reachable state of the shared store, under any interleaving
\* of the _upsert_block calls of concurrently executing runs, no two Block
\* records have the same external_id.
C1_UniqueExternalId ==
    \A b1 \in blocks, b2 \in blocks :
        b1.external_id = b2.external_id => b1 = b2

\* both runs have inserted the same external_id: the later insert was a
\* conflict
C1_Witness ==
    \E p \in Procs : pc[p] = "post" /\ upserted[p] = "updated"

MediaUrls(b) ==
    {b.image_url, b.og_image_url, b.thumbnail_url, b.video_url} \ {NULL}

AssetFps(b) == {FP[u] : u \in MediaUrls(b)} \ {<< >>}

\* C2: _upsert_block never leaves two records that share a non-null media
\* URL or whose media URLs reduce to the same asset fingerprint.
C2_OneRecordPerAsset ==
    \A b1 \in blocks, b2 \in blocks :
        b1 # b2 =>
            /\ MediaUrls(b1) \cap MediaUrls(b2) = {}
            /\ AssetFps(b1) \cap AssetFps(b2) = {}

\* C3: once a Block record exists its run_id and source_id never change,
\* whatever a later upsert of the same external_id writes.
C3_FirstWriterWins ==
    [][\A b \in blocks :
          \E b2 \in blocks' :
              /\ b2.id = b.id
              /\ b2.external_id = b.external_id
              /\ b2.run_id = b.run_id
              /\ b2.source_id = b.source_id]_vars

\* a run's insert has conflicted with the block another run created
C3_Witness ==
    \E p \in Procs :
        /\ upserted[p] = "updated"
        /\ \E b \in blocks : b.id = block_id[p] /\ b.run_id # p

\* C4: two concurrent runs that both passed the existence pre-checks for
\* the same new external_id and both called _upsert_block get the id of the
\* same single record.
C4_SameRecord ==
    \A p \in Procs, q \in Procs :
        /\ p # q
        /\ pc[p] = "post"
        /\ pc[q] = "post"
        /\ Item(p).external_id = Item(q).external_id
        => /\ block_id[p] = block_id[q]
           /\ \E b \in blocks : b.id = block_id[p]

\* the processing of the item in hand raised: the invocation leaves the
\* upload or the insert by a step that is not the successful one
ItemFails(p) ==
    /\ pc[p] \in {"upload", "insert"}
    /\ pc'[p] \notin {"upload", "insert", "upsert", "post"}

\* C5: when processing a pulled item fails (the upload or the persist
\* raises), the errors counter grows by exactly one, the run stays running
\* and the orchestrator goes on to pull the next item.
C5_FailureContained ==
    [][\A p \in Procs :
          ItemFails(p) =>
              /\ pc'[p] = "pull"
              /\ loop'[p].counters.errors = loop[p].counters.errors + 1
              /\ runs'[p].counters.errors = loop'[p].counters.errors
              /\ runs'[p].status = "running"]_vars

StatusChange(p, from, to) ==
    /\ runs[p].status = from
    /\ runs'[p].status = to

\* the transitions of the state machine of the specification; a run that
\* its invocation creates is inserted as running
SpecTransitions ==
    {<<"absent", "running">>, <<"pending", "running">>,
     <<"running", "paused">>, <<"paused", "running">>,
     <<"running", "completed">>, <<"running", "error">>}

\* C6, as stated: the persisted status of a run changes only along
\* pending->running, running->paused, paused->running, running->completed
\* and running->error, over any sequence of executions of the run id.
C6_SpecTransitionsOnly ==
    [][\A p \in Procs :
          runs'[p].status # runs[p].status =>
              <<runs[p].status, runs'[p].status>> \in SpecTransitions]_vars

\* C6, amended: besides the transitions above the status changes from paused
\* to completed (a cancellation observed while paused) and, when a new
\* invocation starts for the run id, from any status to running; nothing else
\* changes it, so completed and error are final within an invocation.
C6_Transitions ==
    [][\A p \in Procs :
          runs'[p].status # runs[p].status =>
              \/ <<runs[p].status, runs'[p].status>> \in SpecTransitions
              \/ /\ StatusChange(p, "paused", "completed")
                 /\ pc[p] = "reconcile"
              \/ /\ runs'[p].status = "running"
                 /\ pc[p] \in {"idle", "done", "failed", "dead"}
                 /\ pc'[p] = "setup"]_vars

\* a second invocation for the run id has set a run that ended in error
\* back to running
C6_Witness ==
    /\ execs[1] = MaxExec
    /\ runs[1].status = "running"
    /\ runs[1].error_message # NoMsg

\* C7: in every state where the persisted status of a run is paused no item
\* is partially processed: none has its upload started and its upsert and
\* counter update not yet committed.
C7_PausedAtBoundary ==
    \A p \in Procs :
        runs[p].status = "paused" =>
            pc[p] \notin {"upload", "upsert", "insert", "post"}

\* the run is paused after an item it has uploaded
C7_Witness ==
    /\ runs[1].status = "paused"
    /\ pc[1] = "waiting"
    /\ loop[1].counters.uploaded >= 1

\* C8, as stated: once an item of the run has been persisted, the upload of
\* a further item never starts while the status of the source is paused.
C8_NoUploadOncePaused ==
    [][\A p \in Procs :
          /\ pc[p] # "upload"
          /\ pc'[p] = "upload"
          /\ loop[p].counters.uploaded >= 1
          => sources'[source_id(p)] # "paused"]_vars

\* C8, amended: when the pause check that follows the counter update of an
\* item reads the source as paused the orchestrator waits, and it leaves the
\* wait for the next item only on a poll that reads the source as active.
C8_NoUploadWhileObservedPaused ==
    [][\A p \in Procs :
          /\ pc[p] = "post" /\ pc'[p] # "post"
             /\ sources[source_id(p)] = "paused"
             => pc'[p] = "waiting" /\ loop'[p].processed_count = loop[p].processed_count
          /\ pc[p] = "waiting" /\ pc'[p] \in {"pull", "upload"}
             => pc'[p] = "pull" /\ sources[source_id(p)] = "active"]_vars

\* the run waits after an item it has uploaded and the source is active
\* again: the next poll resumes it
C8_Witness ==
    /\ pc[1] = "waiting"
    /\ sources[source_id(1)] = "active"
    /\ loop[1].counters.uploaded >= 1
    /\ runs[1].status = "paused"

\* C9: a run that was paused at an item boundary and resumed ends with the
\* counters and the blocks of the same run executed without a pause over
\* the same stream of the extractor, in the store the run started in.
C9_PauseTransparent ==
    \A p \in Procs :
        pc[p] = "done" /\ resumed[p] =>
            LET ref == UnpausedRun(p, Loop0, {b \in blocks : b.run_id # p}, 1)
            IN  /\ runs[p].status = "completed"
                /\ runs[p].counters = Reconciled(ref.loop, ref.blocks, p)
                /\ blocks = ref.blocks
                /\ loop[p].processed_count = ref.loop.processed_count
                /\ ref.exited \/ exhausted[p]

\* a run that was paused after its first upload, resumed, and that has
\* ended after a further upload
C9_Witness ==
    /\ pc[1] = "done"
    /\ resumed[1]
    /\ runs[1].counters.uploaded >= 2

\* C10: a waiting run pulls no item and writes nothing; a poll that reads
\* active writes the run as running and the loop goes on with the next
\* item; a poll that reads completed or error ends the loop with no further
\* item processed, and the run is then written as completed, not as error.
C10_WaitThenResumeOrStop ==
    [][\A p \in Procs :
          /\ pc[p] = "waiting" =>
                /\ loop'[p] = loop[p]
                /\ blocks' = blocks /\ objects' = objects
                /\ stream'[p] = stream[p]
                /\ \/ pc'[p] = "waiting" /\ runs'[p] = runs[p]
                   \/ /\ sources[source_id(p)] = "active"
                      /\ pc'[p] = "pull"
                      /\ runs'[p] = [runs[p] EXCEPT !.status = "running"]
                   \/ /\ sources[source_id(p)] \in {"completed", "error"}
                      /\ pc'[p] = "reconcile"
                      /\ runs'[p] = runs[p]
          /\ pc[p] = "reconcile" /\ pc'[p] # "reconcile" =>
                /\ pc'[p] = "done"
                /\ runs'[p].status = "completed"
                /\ loop'[p].processed_count = loop[p].processed_count]_vars

\* a run that was cancelled while it waited has ended as completed, with
\* items of its listing left unpulled
C10_Witness ==
    /\ pc[1] = "done"
    /\ runs[1].status = "completed"
    /\ sources[source_id(1)] \in {"completed", "error"}
    /\ ~exhausted[1]
    /\ loop[1].counters.uploaded = 1
    /\ loop[1].consecutive_old_items = 0
\* C11: whenever a run is written with status completed, its persisted
\* counters satisfy uploaded = the number of Block records whose run_id is this
\* run, and skipped = found - uploaded.
BlocksOfRun(run_id) == Cardinality({b \in blocks : b.run_id = run_id})

C11_Reconciled ==
    \A p \in Procs :
        (pc[p] = "done" /\ runs[p].status = "completed")
            => /\ runs[p].counters.uploaded = BlocksOfRun(p)
               /\ runs[p].counters.skipped =
                      runs[p].counters.found - runs[p].counters.uploaded


\* C16: if an exception escapes the item loop, or setup once the run id is
\* known, the run is persisted with status error and the exception's message,
\* and the exception is re-raised (the invocation ends failed).
C16_FatalMarksError ==
    \A p \in Procs :
        pc[p] = "failed"
            => /\ runs[p].status = "error"
               /\ runs[p].error_message = "msg"

\* the keys the uninterrupted run of p puts: one for every item that takes
\* the "new" branch and has a media URL
RECURSIVE UnpausedKeys(_, _, _, _)
UnpausedKeys(p, L, B, k) ==
    IF k > Len(stream[p])
    THEN {}
    ELSE LET it == stream[p][k]
             r == PullItem(L, B, p, it, env, runs[p].kind)
             existing == PreDedupe(B, it)
             B1 == IF existing > 0 THEN B
                   ELSE InsertOnConflict(B, source_id(p), p, it,
                                         R2Key(source_id(p), it))
             bid == IF existing > 0 THEN existing
                    ELSE BlockIdOf(B1, it.external_id)
         IN  CASE r.branch = "exit" -> {}
               [] r.branch = "new" ->
                    (IF media_url(it) # NULL THEN {R2Key(source_id(p), it)} ELSE {})
                        \cup UnpausedKeys(p, CountItem(r.loop, B1, p, bid), B1, k + 1)
               [] OTHER -> UnpausedKeys(p, r.loop, B, k + 1)

\* the blocks and the keys of the other runs: the store run p started in
StoreBefore(p) == {b \in blocks : b.run_id # p}

KeysBefore(p) == {b.r2_key : b \in StoreBefore(p)} \ {NoKey}

Known(p, it) == _item_exists_globally(StoreBefore(p), it.external_id)

\* a stream of new items followed by already-known items: no item comes
\* twice, no new item follows a known one, and no new item is another view of
\* an asset of the store or of an earlier new item
NewThenKnown(p) ==
    LET s == stream[p]
        AsBlock(it) == NewBlock({}, source_id(p), p, it, R2Key(source_id(p), it))
    IN  \A j \in 1..Len(s) :
            /\ ~Known(p, s[j]) => PreDedupe(StoreBefore(p), s[j]) = 0
            /\ \A i \in 1..(j - 1) :
                   /\ s[i].external_id # s[j].external_id
                   /\ Known(p, s[i]) => Known(p, s[j])
                   /\ ~Known(p, s[j]) => PreDedupe({AsBlock(s[i])}, s[j]) = 0

StreakAndProbe(p) ==
    /\ loop[p].consecutive_old_items >= env.only_old_exit_streak
    /\ loop[p].processed_count >= env.probe_min_items

StopTest(p) ==
    /\ loop[p].processed_count >= env.probe_min_items
    /\ \/ loop[p].consecutive_old_items >= env.only_old_exit_streak
       \/ /\ runs[p].kind = "scheduled"
          /\ loop[p].counters.uploaded >= min_new_before_break

Scenario == <<ItemB, ItemA, ItemB, ItemC>>

\* run 1 is somewhere in the scenario: empty store, probe minimum 1, streak
\* threshold 1, and the items pulled so far are the first of Scenario
InScenario ==
    /\ StoreBefore(1) = {}
    /\ env = [only_old_exit_streak |-> 1, probe_min_items |-> 1]
    /\ Len(stream[1]) <= Len(Scenario)
    /\ stream[1] = SubSeq(Scenario, 1, Len(stream[1]))

\* C14: over [A(new), B(new), A(same external_id again), C(new external_id,
\* fingerprint of B)] with probe minimum 1 and streak threshold 1 the run
\* pulls all four items and ends completed with exactly the records of A and
\* B and the counters found = 4, uploaded = 2, skipped = 2.
C14_Scenario ==
    InScenario =>
        /\ pc[1] \in {"reconcile", "done"} => exhausted[1]
        /\ (pc[1] = "done" /\ stream[1] = Scenario) =>
              /\ runs[1].status = "completed"
              /\ Cardinality(blocks) = 2
              /\ {b.external_id : b \in blocks}
                    = {ItemA.external_id, ItemB.external_id}
              /\ runs[1].counters.found = 4
              /\ runs[1].counters.uploaded = 2
              /\ runs[1].counters.skipped = 2

\* the run has pulled the four items of the scenario and has ended
C14_Witness ==
    /\ InScenario
    /\ stream[1] = Scenario
    /\ pc[1] = "done"
    /\ exhausted[1]
    /\ loop[1].processed_count = 4

\* C15: two calls of upload_image (or of upload_video) whose content bytes
\* are identical and whose logical key is the same return the same storage
\* key, whatever URLs the bytes were fetched from.
C15_IdempotentUpload ==
    \A i \in 1..Len(calls), j \in 1..Len(calls) :
        (/\ calls[i].key # NoKey /\ calls[j].key # NoKey
         /\ calls[i].fn = calls[j].fn
         /\ calls[i].data = calls[j].data
         /\ calls[i].base_key = calls[j].base_key)
            => calls[i].key = calls[j].key

\* the descriptors a dispatcher has invoked, and the ones it is done with
Invoked(D) == {D.results[i].d : i \in DOMAIN D.results}

DispFinished ==
    {d \in Invoked(disp) : d < disp.idx \/ disp.pc \in {"spawn", "exit"}}

RnrFinished == Invoked(rnr)

\* delay k of the backoff: 2 s doubling, capped at 30 s
RECURSIVE Backoff(_)
Backoff(k) ==
    IF k = 1 THEN first_delay
    ELSE IF 2 * Backoff(k - 1) < delay_cap THEN 2 * Backoff(k - 1) ELSE delay_cap

\* the retry contract on the history of dispatcher D, Fin being the
\* descriptors it is done with
RetryContract(D, Fin) ==
    \A d \in Invoked(D) :
        LET A == {i \in DOMAIN D.results : D.results[i].d = d}
            last == D.results[CHOOSE i \in A : \A j \in A : j <= i]
            S == SelectSeq(D.slept, LAMBDA e : e.d = d)
            R == SelectSeq(D.posts, LAMBDA e : e.d = d /\ e.type = "RETRY"
                                                 /\ e.message = "Retry")
        IN  /\ Cardinality(A) <= max_attempts
            /\ \A i \in A, j \in A : D.results[i].code = 0 => j <= i
            /\ d \in Fin => last.code = 0 \/ Cardinality(A) = max_attempts
            /\ Len(S) >= Cardinality(A) - 1
            /\ \A k \in 1..Len(S) : S[k].delay = Backoff(k)
            /\ Len(R) >= Len(S)

\* C17: a descriptor whose process exits non-zero is invoked again after a
\* delay of 2 s doubling (capped at 30 s), a RETRY log event is posted for each
\* retry, no descriptor is invoked more than 3 times, and a zero exit ends
\* the retries -- in both dispatchers.
C17_RetryWithBackoff ==
    /\ disp.pc # "off" => RetryContract(disp, DispFinished)
    /\ rnr.pc # "off" => RetryContract(rnr, RnrFinished)

\* C18: a descriptor that has failed on all of its attempts does not stop
\* the dispatcher: run_pending_once returns only when every descriptor of its
\* list has been invoked, and runner goes to sleep only when every descriptor
\* of the slice it took has been invoked.
C18_FailureDoesNotHalt ==
    /\ disp.pc = "exit" => Invoked(disp) = 1..Len(disp.runs)
    /\ rnr.pc = "sleep" =>
          \A k \in 1..Len(Sliced(rnr.runs, rnr.MAX_PARALLEL)) :
              <<rnr.poll, k>> \in Invoked(rnr)

\* C19: the number of orchestrator processes a dispatcher has started and
\* that are still alive never exceeds its concurrency limit (parallel, the
\* clamped WORKER_PARALLELISM, in run_pending_once; MAX_PARALLEL in runner).
C19_BoundedConcurrency ==
    /\ disp.pc # "off" => disp.live <= disp.parallel
    /\ rnr.pc # "off" => rnr.live <= rnr.MAX_PARALLEL

\* a child is alive under a limit of one, after an earlier child of the same
\* dispatcher has exited
C19_Witness ==
    /\ disp.pc = "child"
    /\ disp.parallel = 1
    /\ disp.live = 1
    /\ Len(disp.results) >= 1

\* C20: a failed post to the log endpoint raises neither into the
\* orchestrator nor into the dispatcher, and the run ends with the status,
\* the counters and the records of the run whose posts all succeed; the
\* dispatcher goes through its descriptors as if the posts had succeeded.
C20_LogsBestEffort ==
    /\ pc[1] # "failed"
    /\ disp.pc # "crashed"
    /\ pc[1] = "done" =>
          LET ref == UnpausedRun(1, Loop0, StoreBefore(1), 1)
          IN  /\ runs[1].status = "completed"
              /\ runs[1].error_message = NoMsg
              /\ runs[1].counters = Reconciled(ref.loop, ref.blocks, 1)
              /\ blocks = ref.blocks
              /\ ref.exited \/ exhausted[1]
    /\ disp.pc # "off" => RetryContract(disp, DispFinished)
    /\ (disp.pc = "exit" /\ disp.rc = 0) => Invoked(disp) = 1..Len(disp.runs)

\* a run that has lost a log has uploaded an item and has ended
C20_Witness ==
    /\ pc[1] = "done"
    /\ log_lost[1]
    /\ runs[1].counters.uploaded >= 1

\* the items invocation p has pulled and finished handling
Handled(p) ==
    IF pc[p] \in {"pull", "reconcile", "done"} THEN 1..loop[p].processed_count ELSE {}

\* the provenance link of source s and block bid as the worker records it:
\* the user_blocks row of the profile's user (no code writes block_sources)
ProvenanceLink(s, bid) == <<s, bid>> \in user_blocks

\* C21: for a user-profile source, every item pulled from the source and
\* handled, whose record is in the store, has a provenance link to the
\* source -- also when the item was skipped because the record existed.
C21_ProvenanceComplete ==
    \A p \in Procs :
        (runs[p].status # "absent" /\ SourceType(source_id(p)) = "user") =>
            \A i \in Handled(p) : \A b \in blocks :
                b.external_id = stream[p][i].external_id =>
                    ProvenanceLink(source_id(p), b.id)

\* C22: when the upload of the media of a new item fails, the item is
\* counted in errors, its record is nevertheless stored without a key and
\* with status scraped, and the run is not failed.
C22_UploadFailureKeepsMetadata ==
    [][\A p \in Procs :
          UploadRaises(p) =>
              /\ loop'[p].counters.errors = loop[p].counters.errors + 1
              /\ pc'[p] # "failed"
              /\ runs'[p].status = "running"
              /\ \E b \in blocks' :
                    /\ b.external_id = Item(p).external_id
                    /\ b.r2_key = NoKey
                    /\ b.status = "scraped"]_vars

\* C23: whenever the loop is about to pull the next item, the found counter
\* of the stored run equals the number of items pulled so far by this
\* invocation, whatever happened to the last item (new, skipped or failed).
C23_FoundTracksPulled ==
    \A p \in Procs :
        pc[p] = "pull" => runs[p].counters.found = loop[p].processed_count

\* C24: within an invocation, uploaded grows (by one) exactly at the
\* counting step of an item whose upsert inserted a new record; an item
\* whose upsert resolved to an existing record (pre-dedupe, or update of a
\* stored external_id) leaves uploaded alone and adds one to skipped.
C24_UploadedCountsNewRecords ==
    [][\A p \in Procs :
          LET c == loop[p].counters
              d == loop'[p].counters
          IN  /\ d.uploaded > c.uploaded =>
                    /\ pc[p] = "post"
                    /\ upserted[p] = "inserted"
                    /\ d.uploaded = c.uploaded + 1
              /\ (pc[p] = "post" /\ pc'[p] # "post") =>
                    IF upserted[p] = "inserted"
                    THEN d.uploaded = c.uploaded + 1 /\ d.skipped = c.skipped
                    ELSE d.uploaded = c.uploaded /\ d.skipped = c.skipped + 1]_vars

\* C25: no object is put for an item that turns out to be known: an item
\* skipped at the pull leaves the object store alone, and an item whose
\* upsert resolves to an existing record (shared media URL, fingerprint
\* match, stored external_id) has had no media uploaded.
C25_NoPutForKnownItem ==
    [][\A p \in Procs :
          /\ (pc[p] = "pull" /\ pc'[p] \in {"pull", "reconcile"}) => objects' = objects
          /\ (pc[p] = "post" /\ upserted[p] # "inserted") => r2_key[p] = NoKey]_vars

\* the step pulls an item: the item, and whether the store knew its
\* external_id before this invocation pulled it
Pulled(p) == pc[p] = "pull" /\ loop'[p].processed_count = loop[p].processed_count + 1

PulledItem(p) == stream'[p][loop'[p].processed_count]

KnownAtPull(p) ==
    /\ PulledItem(p).external_id \notin loop[p].seen_in_session
    /\ _item_exists_globally(blocks, PulledItem(p).external_id)

CreatedRecord(p, i) ==
    \E b \in blocks : b.external_id = stream[p][i].external_id /\ b.run_id = p

\* the number of most recently handled items, in a row, that created no
\* record
TrailingKnown(p) ==
    LET n == loop[p].processed_count
    IN  Cardinality({i \in 1..n : \A j \in i..n : ~CreatedRecord(p, j)})

DistinctIds(p) ==
    \A i, j \in 1..Len(stream[p]) :
        i # j => stream[p][i].external_id # stream[p][j].external_id

\* C27: when the loop is about to pull (the listing repeating no
\* external_id), the known-streak is the number of most recently pulled
\* items, in a row, that were already known, i.e. that created no record: an
\* item resets it exactly when it creates a record.
C27_StreakCountsTrailingKnown ==
    \A p \in Procs :
        (pc[p] = "pull" /\ DistinctIds(p)) =>
            loop[p].consecutive_old_items = TrailingKnown(p)

\* invocation p finishes the handling of an item at this step and goes on
\* to the next pull
NextPullAfterItem(p) ==
    /\ pc'[p] = "pull"
    /\ \/ Pulled(p)
       \/ pc[p] \in {"upload", "insert", "post"}

\* C28: the pause condition is evaluated after every item -- new, skipped
\* or failed -- before the next pull: the loop never goes from an item to
\* the next pull while the source of the run is paused.
C28_PauseCheckedAtEveryBoundary ==
    [][\A p \in Procs :
          NextPullAfterItem(p) => ~_check_if_paused(source_id(p))]_vars

\* C29: while invocation p waits for the resume, a poll that fails is
\* logged and stores nothing, the invocation keeps waiting and the run is
\* not failed; the wait is left only when the source is read active (the
\* run is written running and the loop goes on) or completed / error (the
\* loop ends).
C29_PollFailureKeepsWaiting ==
    [][\A p \in Procs :
          pc[p] = "waiting" =>
              /\ pc'[p] \in {"waiting", "pull", "reconcile"}
              /\ pc'[p] = "pull" =>
                    sources[source_id(p)] = "active" /\ runs'[p].status = "running"
              /\ pc'[p] = "reconcile" => sources[source_id(p)] \in {"completed", "error"}
              /\ pc'[p] = "waiting" => runs'[p] = runs[p]
              /\ wait_errors'[p] # wait_errors[p] =>
                    /\ pc'[p] = "waiting"
                    /\ <<blocks, runs, objects, loop, user_blocks>>' =
                           <<blocks, runs, objects, loop, user_blocks>>]_vars

\* a run whose wait has met a failing poll was resumed and has completed
C29_Witness ==
    /\ pc[1] = "done"
    /\ wait_errors[1] >= 1
    /\ resumed[1]
    /\ runs[1].status = "completed"

\* the delays before the retries of a call: 1, 2, 4, ... capped at 32
RECURSIVE SkewWaits(_)
SkewWaits(n) ==
    IF n = 0 THEN << >>
    ELSE Append(SkewWaits(n - 1), IF Pow2(n - 1) < 32 THEN Pow2(n - 1) ELSE 32)

\* C30: in every call of upload_file each put but the last was refused for
\* clock skew and was followed by a refresh of the client and a wait of
\* min(32, 2^attempt) s; no call makes more than 6 puts; a call has raised
\* exactly when its last put failed otherwise than by a clock skew that
\* leaves attempts (so the 6th skew, or any other error at once); a call
\* has returned exactly when its last put succeeded, and its key is stored.
C30_RetryOnlyOnSkew ==
    \A i \in 1..Len(calls) :
        LET c == calls[i]
            n == Len(c.puts)
        IN  /\ n <= 6
            /\ \A k \in 1..(n - 1) : c.puts[k] = "RequestTimeTooSkewed"
            /\ c.result = "running" =>
                  /\ n < 6
                  /\ n > 0 => c.puts[n] = "RequestTimeTooSkewed"
                  /\ c.refreshes = n /\ c.waits = SkewWaits(n)
            /\ c.result # "running" =>
                  /\ n >= 1
                  /\ c.refreshes = n - 1 /\ c.waits = SkewWaits(n - 1)
                  /\ c.result = "returned" <=> c.puts[n] = "ok"
                  /\ c.result = "returned" => c.key \in objects
                  /\ c.result = "raised" =>
                        \/ c.puts[n] \in {"AccessDenied", "Exception"}
                        \/ c.puts[n] = "RequestTimeTooSkewed" /\ n = 6

\* a call has raised at its 6th clock-skew refusal, after five waits
C30_Witness ==
    \E i \in 1..Len(calls) :
        /\ calls[i].result = "raised"
        /\ Len(calls[i].puts) = 6
        /\ calls[i].puts[6] = "RequestTimeTooSkewed"
        /\ calls[i].waits = <<1, 2, 4, 8, 16>>

\* C31: a call of upload_image or upload_video whose original was downloaded
\* and put returns the key of the original, which is in the object store,
\* whether or not a thumbnail or the poster failed; the call raises only
\* when the original failed.
C31_DerivedFailureNonFatal ==
    \A i \in 1..Len(calls) :
        LET c == calls[i]
            original == IF c.fn = "upload_image"
                        THEN upload_image(URLS[c.url], c.base_key, c.data)
                        ELSE upload_video(URLS[c.url], c.base_key, c.data)
        IN  /\ c.original_ok =>
                  c.result = "returned" /\ c.key = original /\ c.key \in objects
            /\ c.result = "raised" => ~c.original_ok

\* an image whose thumbnails failed and a video whose poster failed have
\* both returned the key of the original
C31_Witness ==
    \E i, j \in 1..Len(calls) :
        /\ calls[i].fn = "upload_image" /\ calls[j].fn = "upload_video"
        /\ calls[i].original_ok /\ ~calls[i].derived_ok /\ calls[i].result = "returned"
        /\ calls[j].original_ok /\ ~calls[j].derived_ok /\ calls[j].result = "returned"

\* C32: from the first write of an invocation (status running) to its
\* terminal write, no write to the run lowers found, uploaded, skipped or
\* errors.
C32_CountersMonotone ==
    [][\A p \in Procs :
          pc[p] \in Live =>
              /\ runs'[p].counters.found >= runs[p].counters.found
              /\ runs'[p].counters.uploaded >= runs[p].counters.uploaded
              /\ runs'[p].counters.skipped >= runs[p].counters.skipped
              /\ runs'[p].counters.errors >= runs[p].counters.errors]_vars

\* C33: every stored block has status uploaded when its r2_key is set and
\* status scraped when it is not, after its insert and after every
\* conflicting upsert.
C33_StatusFollowsKey ==
    \A b \in blocks :
        /\ b.status \in {"uploaded", "scraped"}
        /\ b.status = "uploaded" <=> b.r2_key # NoKey

\* a block inserted with media (and a key) that a conflicting upsert without
\* media has turned to scraped
C33_Witness ==
    \E b \in blocks : b.image_url # NULL /\ b.r2_key = NoKey /\ b.status = "scraped"

\* C34: the r2_key of every stored block is a key that was put to the
\* object store (nothing is ever deleted).
C34_NoDanglingKey ==
    \A b \in blocks : b.r2_key # NoKey => b.r2_key \in objects

\* a block inserted without media has received a key from a conflicting
\* upsert, and a block inserted with its key is stored
C34_Witness ==
    \E b \in blocks : b.image_url = NULL /\ b.r2_key # NoKey /\ b.r2_key \in objects

\* the stored records the lookups of the pre-dedupe match for an item: by a
\* media URL, or by the fingerprint of one
LookupRows(B, it) ==
    {b \in B : \/ it.og_image_url # NULL /\ b.og_image_url = it.og_image_url
               \/ it.image_url # NULL /\ b.image_url = it.image_url
               \/ it.thumbnail_url # NULL /\ b.thumbnail_url = it.thumbnail_url
               \/ it.video_url # NULL /\ b.video_url = it.video_url}
        \cup UNION {FuzzyRows(B, ItemFps(it)[k]) : k \in 1..Len(ItemFps(it))}

\* C35: when the item shares a media URL or an asset fingerprint with at
\* least one stored record, _upsert_block returns the id of a stored record
\* and goes on to no insert, however many records match.
C35_DedupeReturnsExisting ==
    [][\A p \in Procs :
          (/\ pc[p] = "upsert"
           /\ pc'[p] \in {"post", "insert"}
           /\ LookupRows(blocks, Item(p)) # {}) =>
              /\ pc'[p] = "post"
              /\ blocks' = blocks
              /\ \E b \in blocks : b.id = block_id'[p]]_vars

\* the invocation of run 1 has returned or raised
Ended == pc[1] \in {"done", "failed"}

\* C36: if the source of the run is not left paused forever, the invocation
\* of a resolved run ends, and whenever it has returned or raised the
\* stored run is completed or error, not running or paused.
C36_EndsInTerminalState ==
    /\ []<>(sources[1] # "paused") => <>Ended
    /\ [](Ended => runs[1].status \in {"completed", "error"})

\* the termination half of C36 alone
C36_Terminates == []<>(sources[1] # "paused") => <>Ended

\* C37: over any sequence of invocations of a run id, a stored run that is
\* completed has no error_message; only a run in status error has one.
C37_MessageOnlyOnError ==
    \A p \in Procs :
        /\ runs[p].status = "completed" => runs[p].error_message = NoMsg
        /\ runs[p].error_message # NoMsg => runs[p].status = "error"


\* the run ids run_pending_once has started a child for: the exited children
\* in order, then the child that is alive
StartedIds ==
    [i \in 1..Len(disp.results) |-> disp.results[i].run_id]
        \o (IF disp.pc = "child" THEN <<disp.runs[disp.idx]>> ELSE << >>)

\* C38: within one invocation of run_pending_once, no child is started for
\* a run id after a child of that run id has exited with code 0.
C38_SuccessAtMostOnce ==
    disp.pc # "off" =>
        \A i \in DOMAIN disp.results : \A j \in DOMAIN StartedIds :
            (disp.results[i].code = 0 /\ i < j) =>
                StartedIds[j] # disp.results[i].run_id

\* the external_ids both runs have pulled and handled
SharedIds ==
    {x \in {stream[1][i].external_id : i \in Handled(1)} :
        \E j \in Handled(2) : stream[2][j].external_id = x}

BothCompleted == \A p \in Procs : pc[p] = "done" /\ runs[p].status = "completed"

\* C39: when two concurrent runs have handled the same new external_id and
\* both have completed, the record of that external_id carries the run_id of
\* exactly one of them, that run's final uploaded counts it (uploaded = the
\* number of records carrying its run_id), the other run's final uploaded
\* does not and its final skipped does (skipped = found - uploaded >= 1), and
\* the final uploaded counters add up to the number of records attributed to
\* the two runs.
C39_SharedItemCountedOnce ==
    BothCompleted =>
        /\ \A b \in blocks :
              b.external_id \in SharedIds =>
                  \E p \in Procs :
                      LET q == CHOOSE r \in Procs : r # p
                      IN  /\ b.run_id = p
                          /\ \A b2 \in blocks :
                                b2.external_id = b.external_id => b2 = b
                          /\ runs[p].counters.uploaded = BlocksOfRun(p)
                          /\ runs[q].counters.uploaded = BlocksOfRun(q)
                          /\ runs[q].counters.found = loop[q].processed_count
                          /\ runs[q].counters.skipped =
                                runs[q].counters.found - runs[q].counters.uploaded
                          /\ runs[q].counters.skipped >= 1
        /\ runs[1].counters.uploaded + runs[2].counters.uploaded =
              Cardinality({b \in blocks : b.run_id \in Procs})

\* both runs have completed, and one of them has upserted the external_id
\* the other had created the record for: the record carries the owner's
\* run_id and source_id and the storage key the other run computed
C39_Witness ==
    /\ BothCompleted
    /\ \E q \in Procs : \E b \in blocks :
          /\ b.external_id \in SharedIds
          /\ b.run_id # q
          /\ b.r2_key # NoKey
          /\ b.r2_key[1] # b.source_id
          /\ b.r2_key[1] = runs[q].source_id
          /\ runs[q].counters.skipped >= 1

====
